---- MODULE Spec2Model ----
(***************************************************************************)
(* Model of src/server.py, the natal-chart server: the zodiac partition    *)
(* (get_sign), the house formula, the aspect engine and the position       *)
(* resolver (calculate_positions_with_utc with its simulated fallback and  *)
(* its last-resort constant list).                                         *)
(*                                                                         *)
(* Angles are Python floats in the source.  Here they are exact fixed-     *)
(* point numbers: an integer n stands for n / Scale degrees, and every     *)
(* comparison of the source is written so that it is exact on that grid.   *)
(* IEEE rounding of the float operations is not modelled.                  *)
(***************************************************************************)
EXTENDS Integers, Sequences, FiniteSets, TLC

VARIABLES pc, args, env, ret

vars == <<pc, args, env, ret>>

\* ------------------------------------------------------------- bounds
\* Units per degree of the fixed-point grid (100: hundredths of a degree).
Scale == 100
\* get_sign is called with longitudes from -MaxDeg to +MaxDeg degrees.
MaxDeg == 725
\* get_house_number is called with longitudes and ascendants on multiples
\* of 15 degrees (and one grid step either side) up to 15 * MaxGrid degrees.
MaxGrid == 26
\* Pairs of longitudes up to MaxSep degrees apart are given to the aspect
\* engine.
MaxSep == 185
\* Instants are whole years (of 365 days) from -MaxYears to MaxYears
\* around 2000-01-01T12:00:00Z.
MaxYears == 3
\* The ephemerides given to the position resolver are numbered 0..MaxSky.
MaxSky == 3

\* ------------------------------------------------------ float helpers
Full == 360 * Scale

Deg(d) == d * Scale

\* Python's x % m for m > 0: the result has the sign of the divisor.
PyMod(x, m) == x % m

\* Python's abs().
Abs(x) == IF x < 0 THEN -x ELSE x

NoEnv == [kind |-> "none"]

NoRet == [kind |-> "none"]

\* ---------------------------------------------------------- get_sign
\* The sign table of get_sign: name, start and length in degrees.
signs ==
  << <<"ARIES", 354, 36>>, <<"TAURO", 30, 30>>, <<"GÉMINIS", 60, 30>>,
     <<"CÁNCER", 90, 30>>, <<"LEO", 120, 30>>, <<"VIRGO", 150, 36>>,
     <<"LIBRA", 186, 24>>, <<"ESCORPIO", 210, 30>>, <<"OFIUCO", 240, 12>>,
     <<"SAGITARIO", 252, 18>>, <<"CAPRICORNIO", 270, 36>>,
     <<"ACUARIO", 306, 18>>, <<"PEGASO", 324, 6>>, <<"PISCIS", 330, 24>> >>

\* The loop of get_sign from table entry i on, for a longitude already
\* reduced by % 360.  The result names the sign and the return statement
\* that produced it: "range" (start <= longitude < end), "wrap" (the elif
\* for an arc that starts after 354.00) or "default" (after the loop).
RECURSIVE get_sign_loop(_, _)
get_sign_loop(longitude, i) ==
  IF i > Len(signs)
  THEN [name |-> "ARIES", site |-> "default"]
  ELSE LET name   == signs[i][1]
           start  == Deg(signs[i][2])
           end    == start + Deg(signs[i][3])
       IN  IF start <= longitude /\ longitude < end
           THEN [name |-> name, site |-> "range"]
           ELSE IF start > Deg(354)
                   /\ (longitude >= start \/ longitude < PyMod(end, Full))
                THEN [name |-> name, site |-> "wrap"]
                ELSE get_sign_loop(longitude, i + 1)

\* get_sign without the reduction of the longitude into [0,360).
get_sign_unreduced(longitude) == get_sign_loop(longitude, 1).name

get_sign_site(longitude) == get_sign_loop(PyMod(longitude, Full), 1).site

get_sign(longitude) == get_sign_loop(PyMod(longitude, Full), 1).name

\* ---------------------------------------------------- get_house_number
\* Python's int() of the quotient n / d (d > 0): truncation towards zero.
PyInt(n, d) == IF n >= 0 THEN n \div d ELSE 0 - ((0 - n) \div d)

\* Python's round() of n / Scale to an integer: ties go to the even one.
PyRound(n) ==
  LET q == n \div Scale
      r == n % Scale
  IN  IF 2 * r < Scale THEN q
      ELSE IF 2 * r > Scale THEN q + 1
      ELSE IF q % 2 = 0 THEN q ELSE q + 1

\* get_house_number with a remainder that keeps the sign of the dividend.
get_house_number_truncmod(longitude, asc_longitude) ==
  LET d    == longitude - asc_longitude
      diff == IF d >= 0 THEN d % Full ELSE 0 - ((0 - d) % Full)
      house == 1 + PyInt(diff, Deg(30))
  IN  IF house > 12 THEN house - 12 ELSE house

get_house_number(longitude, asc_longitude) ==
  LET diff  == PyMod(longitude - asc_longitude, Full)
      house == 1 + PyInt(diff, Deg(30))
  IN  IF house > 12 THEN house - 12 ELSE house

\* ------------------------------------------------------- aspect engine
\* calculate_angle without the reflection of a difference above 180.
calculate_angle_nofold(pos1, pos2) == PyMod(Abs(pos1 - pos2), Full)

calculate_angle(pos1, pos2) ==
  LET diff == PyMod(Abs(pos1 - pos2), Full)
  IN  IF diff > Deg(180) THEN Full - diff ELSE diff

orb == Deg(2)

Near(angle, centres) == \E a \in centres : Abs(angle - Deg(a)) <= orb

\* determine_aspect_type with the orb test strict (< instead of <=).
determine_aspect_type_strict(angle) ==
  LET near(cs) == \E a \in cs : Abs(angle - Deg(a)) < orb
  IN  IF near({0, 60, 120, 180}) THEN "Armónico Relevante"
      ELSE IF near({30, 90, 150}) THEN "Inarmónico Relevante"
      ELSE IF near({12, 24, 36, 48, 72, 84, 96, 108, 132, 144, 156, 168})
           THEN "Armónico"
      ELSE IF near({6, 18, 42, 54, 66, 78, 102, 114, 126, 138, 162, 174})
           THEN "Inarmónico"
      ELSE "None"

\* The tier of an angle, "None" for the None the source returns.
determine_aspect_type(angle) ==
  IF Abs(angle) <= orb \/ Abs(angle - Deg(60)) <= orb
     \/ Abs(angle - Deg(120)) <= orb \/ Abs(angle - Deg(180)) <= orb
  THEN "Armónico Relevante"
  ELSE IF Abs(angle - Deg(30)) <= orb \/ Abs(angle - Deg(90)) <= orb
          \/ Abs(angle - Deg(150)) <= orb
  THEN "Inarmónico Relevante"
  ELSE IF Near(angle, {12, 24, 36, 48, 72, 84, 96, 108, 132, 144, 156, 168})
  THEN "Armónico"
  ELSE IF Near(angle, {6, 18, 42, 54, 66, 78, 102, 114, 126, 138, 162, 174})
  THEN "Inarmónico"
  ELSE "None"

\* The generic keys of get_aspect_key, by rounded angle.
generic_keys ==
  [a \in {6, 12, 18, 24, 30, 36, 42, 48, 54, 66, 72, 78, 84, 96, 102, 108,
          114, 126, 132, 138, 144, 150, 156, 162, 168, 174} |->
     CASE a = 6 -> "SEIS" [] a = 12 -> "DOCE" [] a = 18 -> "DIECIOCHO"
       [] a = 24 -> "VEINTICUATRO" [] a = 30 -> "TREINTA"
       [] a = 36 -> "TREINTAYSEIS" [] a = 42 -> "CUARENTAYDOS"
       [] a = 48 -> "CUARENTAYOCHO" [] a = 54 -> "CICUENTAYCUATRO"
       [] a = 66 -> "SESENTAYSEIS" [] a = 72 -> "QUINTILE"
       [] a = 78 -> "SETENTAYOCHO" [] a = 84 -> "OCHENTAYCUATRO"
       [] a = 96 -> "NOVENTAYSEIS" [] a = 102 -> "CIENTODOS"
       [] a = 108 -> "CIENTOOCHO" [] a = 114 -> "CIENTOCATORCE"
       [] a = 126 -> "CIENTOVEINTISEIS" [] a = 132 -> "CIENTOTREINTAYDOS"
       [] a = 138 -> "CIENTOTREINTAYOCHO"
       [] a = 144 -> "CIENTOCUARENTAYCUATRO" [] a = 150 -> "QUINCUNX"
       [] a = 156 -> "CIENTOCINCUENTAYSEIS" [] a = 162 -> "CIENTOSESENTAYDOS"
       [] a = 168 -> "CIENTOSESENTAYOCHO"
       [] a = 174 -> "CIENTOSETENTAYCUATRO"]

\* get_aspect_key: the display name; the fallback f"ANGLE_{angle}" is the
\* pair <<"ANGLE", angle>>.
get_aspect_key(angle0) ==
  LET angle == PyRound(angle0)
  IN  IF angle <= 2 THEN <<"CONJUNCTION">>
      ELSE IF 58 <= angle /\ angle <= 62 THEN <<"SEXTILE">>
      ELSE IF 88 <= angle /\ angle <= 92 THEN <<"SQUARE">>
      ELSE IF 118 <= angle /\ angle <= 122 THEN <<"TRINE">>
      ELSE IF 178 <= angle /\ angle <= 180 THEN <<"OPPOSITION">>
      ELSE IF angle \in DOMAIN generic_keys THEN <<generic_keys[angle]>>
      ELSE <<"ANGLE", angle>>

get_aspect_color(aspect_type) ==
  CASE aspect_type = "Armónico Relevante" -> "#000080"
    [] aspect_type = "Inarmónico Relevante" -> "#FF0000"
    [] aspect_type = "Armónico" -> "#ADD8E6"
    [] aspect_type = "Inarmónico" -> "#ffff00"
    [] OTHER -> "#888888"

\* The body of the pair loops of calculate_positions_aspects for two
\* longitudes: the separation, its tier and, when it has one, the name and
\* colour recorded for the aspect.
pair_aspect(lon1, lon2) ==
  LET angle       == calculate_angle(lon1, lon2)
      aspect_type == determine_aspect_type(angle)
  IN  IF aspect_type # "None"
      THEN [kind |-> "aspect", recorded |-> TRUE, angle |-> angle,
            tier |-> aspect_type, type |-> get_aspect_key(angle),
            color |-> get_aspect_color(aspect_type)]
      ELSE [kind |-> "aspect", recorded |-> FALSE, angle |-> angle,
            tier |-> aspect_type]

\* ------------------------------------------------------------ ayanamsa
\* calculate_fagan_allen_ayanamsa for the instant `days` whole days after
\* 2000-01-01T12:00:00Z: 24.0 + 0.01397 * days / 365.25 degrees, on the
\* grid (0.01397 / 365.25 = 1397 / 36525000).
calculate_fagan_allen_ayanamsa(days) ==
  Deg(24) + (1397 * days * Scale) \div 36525000

\* ----------------------------------------------------------- dignities
DIGNIDADES ==
  [planeta \in {"SOL", "LUNA", "MERCURIO", "VENUS", "MARTE", "JÚPITER",
                "SATURNO", "URANO", "NEPTUNO", "PLUTÓN"} |->
    CASE planeta = "SOL" ->
           [domicilio  |-> {"ESCORPIO", "GÉMINIS", "PEGASO"},
            exaltacion |-> {"LEO", "ARIES", "CAPRICORNIO", "VIRGO"},
            caida      |-> {"CÁNCER", "PISCIS", "LIBRA", "ACUARIO", "OFIUCO"},
            exilio     |-> {"TAURO", "SAGITARIO"}]
      [] planeta = "LUNA" ->
           [domicilio  |-> {"TAURO", "SAGITARIO"},
            exaltacion |-> {"CÁNCER", "PISCIS", "LIBRA", "ACUARIO", "OFIUCO"},
            caida      |-> {"LEO", "ARIES", "CAPRICORNIO", "VIRGO"},
            exilio     |-> {"ESCORPIO", "GÉMINIS", "PEGASO"}]
      [] planeta \in {"MERCURIO", "URANO"} ->
           [domicilio  |-> {"LEO", "ARIES", "ESCORPIO", "PEGASO"},
            exaltacion |-> {"GÉMINIS", "CAPRICORNIO", "VIRGO"},
            caida      |-> {"TAURO", "LIBRA", "ACUARIO", "OFIUCO"},
            exilio     |-> {"CÁNCER", "PISCIS", "SAGITARIO"}]
      [] planeta = "VENUS" ->
           [domicilio  |-> {"CÁNCER", "PISCIS", "SAGITARIO"},
            exaltacion |-> {"TAURO", "LIBRA", "ACUARIO", "OFIUCO"},
            caida      |-> {"GÉMINIS", "CAPRICORNIO", "VIRGO"},
            exilio     |-> {"LEO", "ARIES", "ESCORPIO", "PEGASO"}]
      [] planeta \in {"MARTE", "PLUTÓN"} ->
           [domicilio  |-> {"GÉMINIS", "CAPRICORNIO", "VIRGO"},
            exaltacion |-> {"LEO", "ARIES", "ESCORPIO", "PEGASO"},
            caida      |-> {"CÁNCER", "PISCIS", "SAGITARIO"},
            exilio     |-> {"TAURO", "LIBRA", "ACUARIO", "OFIUCO"}]
      [] planeta \in {"JÚPITER", "NEPTUNO"} ->
           [domicilio  |-> {"TAURO", "LIBRA", "ACUARIO", "OFIUCO"},
            exaltacion |-> {"CÁNCER", "PISCIS", "SAGITARIO"},
            caida      |-> {"LEO", "ARIES", "ESCORPIO", "PEGASO"},
            exilio     |-> {"GÉMINIS", "CAPRICORNIO", "VIRGO"}]
      [] planeta = "SATURNO" ->
           [domicilio  |-> {"LEO", "ARIES", "LIBRA", "ACUARIO"},
            exaltacion |-> {"OFIUCO", "GÉMINIS", "SAGITARIO"},
            caida      |-> {"TAURO", "ESCORPIO", "PEGASO"},
            exilio     |-> {"CÁNCER", "PISCIS", "CAPRICORNIO", "VIRGO"}]]

\* The lookup without its last test.
calcular_dignidad_planetaria_no_exilio(planeta, signo) ==
  IF planeta \in DOMAIN DIGNIDADES
  THEN IF signo \in DIGNIDADES[planeta].domicilio THEN "domicilio"
       ELSE IF signo \in DIGNIDADES[planeta].exaltacion THEN "exaltacion"
       ELSE IF signo \in DIGNIDADES[planeta].caida THEN "caida"
       ELSE "peregrino"
  ELSE "peregrino"

calcular_dignidad_planetaria(planeta, signo) ==
  IF planeta \in DOMAIN DIGNIDADES
  THEN IF signo \in DIGNIDADES[planeta].domicilio THEN "domicilio"
       ELSE IF signo \in DIGNIDADES[planeta].exaltacion THEN "exaltacion"
       ELSE IF signo \in DIGNIDADES[planeta].caida THEN "caida"
       ELSE IF signo \in DIGNIDADES[planeta].exilio THEN "exilio"
       ELSE "peregrino"
  ELSE "peregrino"

\* ------------------------------------------- ephemeris path: one body
\* The bodies of calculate_positions_with_utc, in the order of its dict.
bodies ==
  <<"SOL", "LUNA", "MERCURIO", "VENUS", "MARTE", "JÚPITER", "SATURNO",
    "URANO", "NEPTUNO", "PLUTÓN">>

\* (longitude - ayanamsa + 360) % 360, the sidereal correction.
sidereal(longitude, ayanamsa) == PyMod(longitude - ayanamsa + Full, Full)

\* The correction of longitude_before left out.
sidereal_before_uncorrected(longitude_before, ayanamsa) == longitude_before

\* The correction as applied to the sample of the day before.
sidereal_before(longitude_before, ayanamsa) ==
  sidereal(longitude_before, ayanamsa)

\* A daily motion without the fold of a difference above 180.
daily_motion_unfolded(to, from) == PyMod(to - from, Full)

\* daily_motion_before / daily_motion_after: the difference modulo 360,
\* less 360 when it is above 180.
daily_motion(to, from) ==
  LET d == PyMod(to - from, Full)
  IN  IF d > Deg(180) THEN d - Full ELSE d

\* The classification of lines 705-719: the sign pattern of the two daily
\* motions, then the near-stationary override; the threshold abs(m) < 0.1
\* is 10 * |m| < Scale on the grid.
classify_motion(daily_motion_before, daily_motion_after) ==
  LET first ==
        IF daily_motion_before < 0 /\ daily_motion_after < 0
        THEN "retrograde"
        ELSE IF daily_motion_before >= 0 /\ daily_motion_after < 0
        THEN "stationary_retrograde"
        ELSE IF daily_motion_before < 0 /\ daily_motion_after >= 0
        THEN "stationary_direct"
        ELSE "direct"
  IN  IF 10 * Abs(daily_motion_before) < Scale
         \/ 10 * Abs(daily_motion_after) < Scale
      THEN IF first = "retrograde" THEN "stationary_retrograde"
           ELSE IF first = "direct" THEN "stationary_direct"
           ELSE first
      ELSE first

\* The motion status without the exemption of SOL and LUNA.
motion_status_no_exemption(body_name, daily_motion_before, daily_motion_after) ==
  classify_motion(daily_motion_before, daily_motion_after)

\* motion_status of a body: "direct" unless the body is neither SOL nor
\* LUNA, and then classified from its two daily motions.
motion_status_of(body_name, daily_motion_before, daily_motion_after) ==
  IF body_name \notin {"SOL", "LUNA"}
  THEN classify_motion(daily_motion_before, daily_motion_after)
  ELSE "direct"

\* The tropical pair added to a record in sidereal mode.
tropical_fields(use_sidereal, tropical_longitude) ==
  IF use_sidereal
  THEN [tropical_longitude |-> tropical_longitude,
        tropical_sign |-> get_sign(tropical_longitude)]
  ELSE << >>

\* One pass of the loop over the bodies: the record appended for body_name
\* from the ephemeris longitudes at t - 1 day, t and t + 1 day.  The mean
\* (before + after) / 2 is the pair <<before + after, 2>>.
body_position(body_name, lon_before, lon, lon_after, use_sidereal, ayanamsa) ==
  LET tropical_longitude == PyMod(lon, Full)
      longitude == IF use_sidereal
                   THEN sidereal(tropical_longitude, ayanamsa)
                   ELSE tropical_longitude
      longitude_before == IF use_sidereal
                          THEN sidereal_before(PyMod(lon_before, Full), ayanamsa)
                          ELSE PyMod(lon_before, Full)
      longitude_after == IF use_sidereal
                         THEN sidereal(PyMod(lon_after, Full), ayanamsa)
                         ELSE PyMod(lon_after, Full)
      daily_motion_before == daily_motion(longitude, longitude_before)
      daily_motion_after  == daily_motion(longitude_after, longitude)
      sign == get_sign(longitude)
  IN  [name |-> body_name,
       longitude |-> longitude,
       sign |-> sign,
       dignidad |-> calcular_dignidad_planetaria(body_name, sign),
       motion_status |-> motion_status_of(body_name, daily_motion_before,
                                          daily_motion_after),
       daily_motion |-> <<daily_motion_before + daily_motion_after, 2>>]
      @@ tropical_fields(use_sidereal, tropical_longitude)

\* ------------------------------------- angles and parts (both paths)
\* (x + 180) % 360 without the reduction.
opposite_unreduced(longitude) == longitude + Deg(180)

\* (x + 180) % 360: the longitude of DSC from ASC and of IC from MC.
opposite(longitude) == PyMod(longitude + Deg(180), Full)

is_dry_birth(sol_longitude, asc_longitude) ==
  LET diff  == PyMod(sol_longitude - asc_longitude, Full)
      house == 1 + PyInt(diff, Deg(30))
  IN  7 <= house /\ house <= 12

\* A record of a chart angle, with the tropical pair in sidereal mode.
angle_position(name, longitude, use_sidereal, tropical_longitude) ==
  [name |-> name, longitude |-> longitude, sign |-> get_sign(longitude),
   motion_status |-> "direct"]
  @@ tropical_fields(use_sidereal, tropical_longitude)

\* The four records appended for ASC, MC, DSC and IC from the tropical
\* angles: in sidereal mode the ayanamsa is taken off ASC and MC first.
angle_positions(tropical_asc, tropical_mc, use_sidereal, ayanamsa) ==
  LET asc == IF use_sidereal THEN sidereal(tropical_asc, ayanamsa)
             ELSE tropical_asc
      mc  == IF use_sidereal THEN sidereal(tropical_mc, ayanamsa)
             ELSE tropical_mc
  IN  << angle_position("ASC", asc, use_sidereal, tropical_asc),
         angle_position("MC", mc, use_sidereal, tropical_mc),
         angle_position("DSC", opposite(asc), use_sidereal,
                        PyMod(tropical_asc + Deg(180), Full)),
         angle_position("IC", opposite(mc), use_sidereal,
                        PyMod(tropical_mc + Deg(180), Full)) >>

\* next((p for p in positions if p["name"] == name), None): the index of
\* the first record of that name, 0 for None.
first_named(positions, name) ==
  LET hits == { i \in 1..Len(positions) : positions[i].name = name }
  IN  IF hits = {} THEN 0 ELSE CHOOSE i \in hits : \A j \in hits : i <= j

\* The records appended for PARTE_FORTUNA and PARTE_ESPIRITU, none when
\* SOL or LUNA is not in the list; asc is the ascendant of the frame.
part_positions(positions, asc) ==
  LET si == first_named(positions, "SOL")
      li == first_named(positions, "LUNA")
  IN  IF si = 0 \/ li = 0 THEN << >>
      ELSE
        LET sol  == positions[si].longitude
            luna == positions[li].longitude
            is_dry == is_dry_birth(sol, asc)
            dist_sol_a_luna == PyMod(luna - sol, Full)
            dist_luna_a_sol == PyMod(sol - luna, Full)
            parte_fortuna  == IF is_dry THEN PyMod(asc + dist_sol_a_luna, Full)
                              ELSE PyMod(asc + dist_luna_a_sol, Full)
            parte_espiritu == IF is_dry THEN PyMod(asc + dist_luna_a_sol, Full)
                              ELSE PyMod(asc + dist_sol_a_luna, Full)
        IN  << [name |-> "PARTE_FORTUNA", longitude |-> parte_fortuna,
                sign |-> get_sign(parte_fortuna), motion_status |-> "direct"],
               [name |-> "PARTE_ESPIRITU", longitude |-> parte_espiritu,
                sign |-> get_sign(parte_espiritu),
                motion_status |-> "direct"] >>

\* The angles and parts appended when lat and lon are given.
angles_and_parts(positions, coords, asc, mc, use_sidereal, ayanamsa) ==
  IF coords
  THEN LET with_angles ==
             positions \o angle_positions(asc, mc, use_sidereal, ayanamsa)
       IN  with_angles
           \o part_positions(with_angles,
                             with_angles[first_named(with_angles, "ASC")]
                               .longitude)
  ELSE positions

\* ------------------------------------------------------ ephemeris path
\* The try block of calculate_positions_with_utc when nothing raises: the
\* ten bodies from the ephemeris eph (body -> longitudes at t - 1 day, t,
\* t + 1 day), then the angles from calculate_asc_mc and the parts.
positions_from_ephemeris(utc_datetime, coords, use_sidereal, eph, asc_mc) ==
  LET ayanamsa == calculate_fagan_allen_ayanamsa(utc_datetime)
      planets  == [i \in 1..Len(bodies) |->
                     body_position(bodies[i], eph[bodies[i]][1],
                                   eph[bodies[i]][2], eph[bodies[i]][3],
                                   use_sidereal, ayanamsa)]
  IN  angles_and_parts(planets, coords, asc_mc[1], asc_mc[2], use_sidereal,
                       ayanamsa)

\* ------------------------------------------------------ simulated path
\* base_positions (degrees), daily_rates (1/10000 degree per day),
\* retro_cycles and retro_duration (days; 0: the body has no entry).
sim_table ==
  [planet \in {"SOL", "LUNA", "MERCURIO", "VENUS", "MARTE", "JÚPITER",
               "SATURNO", "URANO", "NEPTUNO", "PLUTÓN"} |->
    CASE planet = "SOL"      -> <<279, 9856, 0, 0>>
      [] planet = "LUNA"     -> <<134, 131764, 0, 0>>
      [] planet = "MERCURIO" -> <<268, 40923, 116, 22>>
      [] planet = "VENUS"    -> <<285, 16021, 584, 42>>
      [] planet = "MARTE"    -> <<94, 5240, 780, 80>>
      [] planet = "JÚPITER"  -> <<316, 830, 399, 120>>
      [] planet = "SATURNO"  -> <<223, 334, 378, 140>>
      [] planet = "URANO"    -> <<312, 117, 369, 155>>
      [] planet = "NEPTUNO"  -> <<295, 60, 367, 158>>
      [] planet = "PLUTÓN"   -> <<232, 40, 366, 160>>]

\* (base_pos + rate * days_since_j2000) % 360, brought down to the grid.
simulated_longitude(planet_name, days) ==
  (PyMod(sim_table[planet_name][1] * 10000
           + sim_table[planet_name][2] * days, 360 * 10000) * Scale)
    \div 10000

\* The motion status of the retrograde-window model, with m = days % cycle
\* and cycle_phase = m / cycle: abs(cycle_phase - 0.5) * cycle <=
\* duration / 2 is |2m - cycle| <= duration, and the two 3-day windows at
\* the edges are |2m - cycle + duration| <= 6 and |2m - cycle - duration|
\* <= 6.
simulated_motion_status(planet_name, days) ==
  LET cycle    == sim_table[planet_name][3]
      duration == sim_table[planet_name][4]
  IN  IF cycle # 0 /\ planet_name # "SOL" /\ planet_name # "LUNA"
      THEN LET m == PyMod(days, cycle)
           IN  IF Abs(2 * m - cycle) <= duration THEN "retrograde"
               ELSE IF Abs(2 * m - cycle + duration) <= 6
               THEN "stationary_retrograde"
               ELSE IF Abs(2 * m - cycle - duration) <= 6
               THEN "stationary_direct"
               ELSE "direct"
      ELSE "direct"

\* The record appended for one body by calculate_positions_simulated.
simulated_position(planet_name, days, use_sidereal, ayanamsa) ==
  LET tropical_longitude == simulated_longitude(planet_name, days)
      longitude == IF use_sidereal
                   THEN sidereal(tropical_longitude, ayanamsa)
                   ELSE tropical_longitude
      sign == get_sign(longitude)
  IN  [name |-> planet_name,
       longitude |-> longitude,
       sign |-> sign,
       dignidad |-> calcular_dignidad_planetaria(planet_name, sign),
       motion_status |-> simulated_motion_status(planet_name, days)]
      @@ tropical_fields(use_sidereal, tropical_longitude)

\* The try block of calculate_positions_simulated when nothing raises.
\* asc_mc stands for the ASC and MC of its closed-form formula (sidereal
\* time, atan2), whose trigonometry is outside the model.
positions_simulated(utc_datetime, coords, use_sidereal, asc_mc) ==
  LET ayanamsa == IF use_sidereal
                  THEN calculate_fagan_allen_ayanamsa(utc_datetime) ELSE 0
      planets  == [i \in 1..Len(bodies) |->
                     simulated_position(bodies[i], utc_datetime,
                                        use_sidereal, ayanamsa)]
  IN  angles_and_parts(planets, coords, asc_mc[1], asc_mc[2], use_sidereal,
                       ayanamsa)

\* The list returned when calculate_positions_simulated raises.
last_resort_row(name, longitude, sign, motion_status) ==
  [name |-> name, longitude |-> Deg(longitude), sign |-> sign,
   motion_status |-> motion_status]

last_resort_positions ==
  << last_resort_row("SOL", 120, "LEO", "direct") @@ [dignidad |-> "exaltacion"],
     last_resort_row("LUNA", 186, "LIBRA", "direct") @@ [dignidad |-> "exaltacion"],
     last_resort_row("MERCURIO", 135, "LEO", "direct") @@ [dignidad |-> "domicilio"],
     last_resort_row("VENUS", 90, "CÁNCER", "direct") @@ [dignidad |-> "domicilio"],
     last_resort_row("MARTE", 210, "ESCORPIO", "retrograde") @@ [dignidad |-> "exaltacion"],
     last_resort_row("JÚPITER", 270, "CAPRICORNIO", "direct") @@ [dignidad |-> "exilio"],
     last_resort_row("SATURNO", 330, "PISCIS", "retrograde") @@ [dignidad |-> "exilio"],
     last_resort_row("URANO", 30, "TAURO", "direct") @@ [dignidad |-> "caida"],
     last_resort_row("NEPTUNO", 354, "ARIES", "retrograde") @@ [dignidad |-> "caida"],
     last_resort_row("PLUTÓN", 252, "SAGITARIO", "direct") @@ [dignidad |-> "caida"],
     last_resort_row("ASC", 0, "ARIES", "direct"),
     last_resort_row("MC", 270, "CAPRICORNIO", "direct"),
     last_resort_row("DSC", 180, "LIBRA", "direct"),
     last_resort_row("IC", 90, "CÁNCER", "direct"),
     last_resort_row("PARTE_FORTUNA", 306, "ACUARIO", "direct"),
     last_resort_row("PARTE_ESPIRITU", 60, "GÉMINIS", "direct") >>

\* calculate_positions_simulated: the computed list, or the constant list
\* when the computation raises (e.sim_ok false).
calculate_positions_simulated(a, e) ==
  IF e.sim_ok
  THEN positions_simulated(a.utc_datetime, a.coords, a.use_sidereal, e.asc_mc)
  ELSE last_resort_positions

\* calculate_positions_with_utc: the ephemeris path, or the simulated one
\* when Skyfield is unavailable or the ephemeris path raises (e.eph_ok
\* false).
calculate_positions_with_utc(a, e) ==
  IF e.eph_ok
  THEN positions_from_ephemeris(a.utc_datetime, a.coords, a.use_sidereal,
                                e.eph, e.asc_mc)
  ELSE calculate_positions_simulated(a, e)

\* -------------------------------------------- specification: get_sign
\* Longitudes on whole degrees, one grid step above and one below, over
\* more than two turns on either side of zero.
LonInputs ==
  { Deg(d) + f : d \in (0 - MaxDeg)..MaxDeg, f \in {0, 1, Scale - 1} }

InitSign ==
  /\ pc = "call"
  /\ args \in { [fn |-> "get_sign", longitude |-> l] : l \in LonInputs }
  /\ env = NoEnv
  /\ ret = NoRet

Call_get_sign ==
  /\ pc = "call"
  /\ args.fn = "get_sign"
  /\ ret' = [kind |-> "sign", sign |-> get_sign(args.longitude),
             site |-> get_sign_site(args.longitude)]
  /\ pc' = "done"
  /\ UNCHANGED <<args, env>>

NextSign == Call_get_sign

SpecSign == InitSign /\ [][NextSign]_vars

\* ------------------------------------ specification: get_house_number
LonGrid15 ==
  { Deg(15 * k) + f : k \in (0 - MaxGrid)..MaxGrid, f \in {0 - 1, 0, 1} }

InitHouse ==
  /\ pc = "call"
  /\ args \in { [fn |-> "get_house_number", longitude |-> l,
                 asc_longitude |-> a] : l \in LonGrid15, a \in LonGrid15 }
  /\ env = NoEnv
  /\ ret = NoRet

Call_get_house_number ==
  /\ pc = "call"
  /\ args.fn = "get_house_number"
  /\ ret' = [kind |-> "house",
             house |-> get_house_number(args.longitude, args.asc_longitude)]
  /\ pc' = "done"
  /\ UNCHANGED <<args, env>>

NextHouse == Call_get_house_number

SpecHouse == InitHouse /\ [][NextHouse]_vars

\* -------------------------------------- specification: one aspect pair
\* First longitudes either side of the 0/360 seam, negative and past 360.
PairBases == { Deg(10), Deg(350), 0 - Deg(20), Deg(400) + 1, 0 }

\* Separations on every whole degree and one grid step either side.
Separations ==
  { Deg(d) + f : d \in (0 - MaxSep)..MaxSep, f \in {0 - 1, 0, 1} }

InitAspect ==
  /\ pc = "call"
  /\ args \in { [fn |-> "pair_aspect", pos1 |-> b, pos2 |-> b + s] :
                  b \in PairBases, s \in Separations }
  /\ env = NoEnv
  /\ ret = NoRet

Call_pair_aspect ==
  /\ pc = "call"
  /\ args.fn = "pair_aspect"
  /\ ret' = pair_aspect(args.pos1, args.pos2)
  /\ pc' = "done"
  /\ UNCHANGED <<args, env>>

NextAspect == Call_pair_aspect

SpecAspect == InitAspect /\ [][NextAspect]_vars

\* ------------------------- specification: one body on the ephemeris path
Instants == { 365 * y : y \in (0 - MaxYears)..MaxYears }

\* Tropical longitudes at t: below the ayanamsa, mid-circle, at the seam.
BodyLons == { Deg(3), Deg(24), Deg(200) + 1, Deg(359) + Scale - 1 }

\* Changes of longitude over one day: zero, one grid step, either side of
\* 0.1 degree, a degree, and either side of half a turn, of both signs.
Deltas ==
  { sg * m : sg \in {0 - 1, 1},
             m \in {0, 1, Scale \div 10 - 1, Scale \div 10, Deg(1),
                    Deg(180), Deg(180) + 1} }

InitMotion ==
  /\ pc = "call"
  /\ args \in { [fn |-> "body_position", body_name |-> bodies[i],
                 utc_datetime |-> t, use_sidereal |-> sd,
                 lon_before |-> l - db, lon |-> l, lon_after |-> l + da] :
                  i \in 1..Len(bodies), t \in {0, 365 * MaxYears},
                  sd \in BOOLEAN, l \in BodyLons,
                  db \in Deltas, da \in Deltas }
  /\ env = NoEnv
  /\ ret = NoRet

Call_body_position ==
  /\ pc = "call"
  /\ args.fn = "body_position"
  /\ ret' = [kind |-> "position",
             position |->
               body_position(args.body_name, args.lon_before, args.lon,
                             args.lon_after, args.use_sidereal,
                             calculate_fagan_allen_ayanamsa(args.utc_datetime))]
  /\ pc' = "done"
  /\ UNCHANGED <<args, env>>

NextMotion == Call_body_position

SpecMotion == InitMotion /\ [][NextMotion]_vars

\* ------------------------------- specification: the position resolver
\* Day-to-day changes of longitude (before, after) of the ephemerides:
\* direct, retrograde, turning retrograde, turning direct.
SkyPatterns ==
  << <<Deg(1), Deg(1)>>, <<0 - Deg(1), 0 - Deg(1)>>, <<Deg(1), 0 - 5>>,
     <<0 - 5, Deg(1)>> >>

SkyTriple(l, n) ==
  LET pat == SkyPatterns[(n % Len(SkyPatterns)) + 1]
  IN  <<l - pat[1], l, l + pat[2]>>

BodyIndex(b) == CHOOSE i \in 1..Len(bodies) : bodies[i] = b

\* Ephemeris number k with the Sun at sun and the Moon at moon: the other
\* bodies are spread round the circle, each with its own pattern.
Sky(sun, moon, k) ==
  [b \in { bodies[i] : i \in 1..Len(bodies) } |->
     IF b = "SOL" THEN SkyTriple(sun, k)
     ELSE IF b = "LUNA" THEN SkyTriple(moon, k + 1)
     ELSE SkyTriple((Deg(37) * BodyIndex(b) + (Deg(11) + 1) * k) % Full,
                    k + BodyIndex(b))]

SunLons == { Deg(100), Deg(279), Deg(5) + 1 }

MoonLons == { Deg(134), Deg(40), Deg(186) + Scale - 1 }

\* ASC and MC as calculate_asc_mc (or the closed form) returns them; the
\* pair <<0, 0>> is also what calculate_asc_mc returns on an error.
AscMcs ==
  { <<0, 0>>, <<Deg(10), Deg(270)>>, <<Deg(200) + 1, Deg(96) + 1>>,
    <<Deg(355), Deg(185)>>, <<Deg(10), Deg(5)>> }

Init ==
  /\ pc = "call"
  /\ args \in { [fn |-> "calculate_positions_with_utc", utc_datetime |-> t,
                 coords |-> c, use_sidereal |-> sd] :
                  t \in Instants, c \in BOOLEAN, sd \in BOOLEAN }
  /\ env \in { [kind |-> "sky", eph_ok |-> eo, sim_ok |-> so,
                eph |-> Sky(sun, moon, k), asc_mc |-> am] :
                 eo \in BOOLEAN, so \in BOOLEAN, sun \in SunLons,
                 moon \in MoonLons, k \in 0..MaxSky, am \in AscMcs }
  /\ ret = NoRet

Resolve_ephemeris ==
  /\ pc = "call"
  /\ args.fn = "calculate_positions_with_utc"
  /\ env.eph_ok
  /\ ret' = [kind |-> "positions", path |-> "ephemeris",
             positions |-> calculate_positions_with_utc(args, env)]
  /\ pc' = "done"
  /\ UNCHANGED <<args, env>>

Resolve_simulated ==
  /\ pc = "call"
  /\ args.fn = "calculate_positions_with_utc"
  /\ ~env.eph_ok /\ env.sim_ok
  /\ ret' = [kind |-> "positions", path |-> "simulated",
             positions |-> calculate_positions_with_utc(args, env)]
  /\ pc' = "done"
  /\ UNCHANGED <<args, env>>

Resolve_last_resort ==
  /\ pc = "call"
  /\ args.fn = "calculate_positions_with_utc"
  /\ ~env.eph_ok /\ ~env.sim_ok
  /\ ret' = [kind |-> "positions", path |-> "last_resort",
             positions |-> calculate_positions_with_utc(args, env)]
  /\ pc' = "done"
  /\ UNCHANGED <<args, env>>

Next == Resolve_ephemeris \/ Resolve_simulated \/ Resolve_last_resort

Spec == Init /\ [][Next]_vars

\* ------------------------------------------------------------ claims
\* Arc i of the sign table contains x (0 <= x < 360) under half-open
\* bounds, an arc that passes 360 continuing from 0.
InArc(i, x) ==
  LET start == Deg(signs[i][2])
      end   == start + Deg(signs[i][3])
  IN  (start <= x /\ x < end) \/ (start <= x + Full /\ x + Full < end)

ArcsOf(x) == { i \in 1..Len(signs) : InArc(i, x) }

\* C1: for every longitude L, negative and >= 360 included, get_sign(L) is
\* the name of the one arc of the 14-entry table that contains L mod 360
\* (ARIES covering [354,360) and [0,30)); exactly one arc contains it, so
\* get_sign(L) = get_sign(L mod 360); 353.99 -> PISCIS, 354.01 -> ARIES,
\* 0.0 -> ARIES.
C1_SignPartition ==
  (pc = "done" /\ args.fn = "get_sign") =>
    LET L == args.longitude
        x == L % Full
    IN  /\ Len(signs) = 14
        /\ Cardinality(ArcsOf(x)) = 1
        /\ \A i \in ArcsOf(x) : ret.sign = signs[i][1]
        /\ ret.sign = get_sign(x)
        /\ (x >= Deg(354) \/ x < Deg(30)) => ret.sign = "ARIES"
        /\ (x = Deg(354) - 1) => ret.sign = "PISCIS"
        /\ (x = Deg(354) + 1) => ret.sign = "ARIES"
        /\ (x = 0) => ret.sign = "ARIES"

\* A negative longitude and one past 360 have been classified, and so has
\* the seam at 353.99 / 354.01 / 0.0.
C1_Witness ==
  /\ pc = "done" /\ args.fn = "get_sign"
  /\ args.longitude = Deg(354) + 1 - Full
  /\ ret.sign = "ARIES"

TierCentres ==
  [t \in {"Armónico Relevante", "Inarmónico Relevante", "Armónico",
          "Inarmónico"} |->
     CASE t = "Armónico Relevante" -> {0, 60, 120, 180}
       [] t = "Inarmónico Relevante" -> {30, 90, 150}
       [] t = "Armónico" ->
            {12, 24, 36, 48, 72, 84, 96, 108, 132, 144, 156, 168}
       [] t = "Inarmónico" ->
            {6, 18, 42, 54, 66, 78, 102, 114, 126, 138, 162, 174}]

\* The <<tier, centre>> pairs whose centre is within 2 degrees of a.
CentresWithinOrb(a) ==
  { tc \in UNION { {<<t, c>> : c \in TierCentres[t]} :
                     t \in DOMAIN TierCentres } :
      Abs(a - Deg(tc[2])) <= Deg(2) }

\* C4: for every separation a in [0,180], determine_aspect_type returns
\* the tier of the single centre within 2 degrees (inclusive) of a, and
\* no aspect is recorded when no centre is that near; no separation is
\* within orb of centres of two tiers; longitudes 10 and 130 give 120,
\* major harmonic, TRINE.
C4_TierOfNearestCentre ==
  (pc = "done" /\ args.fn = "pair_aspect") =>
    LET near == CentresWithinOrb(ret.angle)
    IN  /\ Cardinality(near) <= 1
        /\ \A tc \in near : ret.recorded /\ ret.tier = tc[1]
        /\ (near = {}) => (~ret.recorded /\ ret.tier = "None")
        /\ (args.pos1 = Deg(10) /\ args.pos2 = Deg(130)) =>
             /\ ret.angle = Deg(120)
             /\ ret.tier = "Armónico Relevante"
             /\ ret.type = <<"TRINE">>

\* A separation exactly 2 degrees from a centre is classified, and the
\* tier is not the first one tested.
C4_Witness ==
  /\ pc = "done" /\ args.fn = "pair_aspect"
  /\ ret.angle = Deg(152)
  /\ ret.recorded
  /\ ret.tier = "Inarmónico Relevante"

\* C5: for all longitudes a and b, calculate_angle(a, b) = min(d, 360 - d)
\* with d = |a - b| mod 360, lies in [0,180] and equals
\* calculate_angle(b, a); the aspect of the pair (tier, name, colour) is
\* the same whichever of the two is taken first.
C5_AngleSymmetric ==
  (pc = "done" /\ args.fn = "pair_aspect") =>
    LET a == args.pos1
        b == args.pos2
        d == Abs(a - b) % Full
    IN  /\ ret.angle = (IF d <= Full - d THEN d ELSE Full - d)
        /\ 0 <= ret.angle /\ ret.angle <= Deg(180)
        /\ ret.angle = calculate_angle(b, a)
        /\ ret = pair_aspect(b, a)

\* The second longitude is the larger one and the pair spans the seam.
C5_Witness ==
  /\ pc = "done" /\ args.fn = "pair_aspect"
  /\ args.pos1 = Deg(350) /\ args.pos2 = Deg(350) + Deg(70)
  /\ ret.angle = Deg(70)

\* The longitude the ephemeris path works with for a raw longitude x: x
\* reduced into [0,360), less the ayanamsa in sidereal mode.
FrameLon(x) ==
  IF args.use_sidereal
  THEN ((x % Full) - calculate_fagan_allen_ayanamsa(args.utc_datetime) + Full)
         % Full
  ELSE x % Full

\* fold(x) = x - 360 when x > 180.
Fold(x) == IF x > Deg(180) THEN x - Full ELSE x

\* C9: on the ephemeris path, for every body other than SOL and LUNA, with
\* before = fold((lon(t) - lon(t-1d)) mod 360) and after = fold((lon(t+1d)
\* - lon(t)) mod 360): retrograde when both are negative,
\* stationary_retrograde when before >= 0 and after < 0, stationary_direct
\* when before < 0 and after >= 0, otherwise direct; then, if |before| <
\* 0.1 or |after| < 0.1, retrograde becomes stationary_retrograde and
\* direct becomes stationary_direct; the daily motion reported is
\* (before + after) / 2.
C9_MotionClassification ==
  (pc = "done" /\ args.fn = "body_position"
     /\ args.body_name \notin {"SOL", "LUNA"}) =>
    LET before == Fold((FrameLon(args.lon) - FrameLon(args.lon_before)) % Full)
        after  == Fold((FrameLon(args.lon_after) - FrameLon(args.lon)) % Full)
        slow   == 10 * Abs(before) < Scale \/ 10 * Abs(after) < Scale
        st     == ret.position.motion_status
    IN  /\ (before < 0 /\ after < 0 /\ ~slow) <=> st = "retrograde"
        /\ ((before >= 0 /\ after < 0) \/ (before < 0 /\ after < 0 /\ slow))
             <=> st = "stationary_retrograde"
        /\ ((before < 0 /\ after >= 0) \/ (before >= 0 /\ after >= 0 /\ slow))
             <=> st = "stationary_direct"
        /\ (before >= 0 /\ after >= 0 /\ ~slow) <=> st = "direct"
        /\ ret.position.daily_motion = <<before + after, 2>>

\* A body moving backwards on both days, slowly on the second, has been
\* reclassified from retrograde to stationary_retrograde.
C9_Witness ==
  /\ pc = "done" /\ args.fn = "body_position"
  /\ args.body_name = "MARTE"
  /\ args.lon - args.lon_before = 0 - Deg(1)
  /\ args.lon_after - args.lon = 0 - 1
  /\ ret.position.motion_status = "stationary_retrograde"

Resolved == pc = "done" /\ args.fn = "calculate_positions_with_utc"

\* The indices of the records of a list that carry a name.
Named(positions, name) ==
  { i \in 1..Len(positions) : positions[i].name = name }

\* The longitude of the one record of that name.
LonOf(positions, name) ==
  positions[CHOOSE i \in Named(positions, name) : TRUE].longitude

\* The parts of a list follow the formula of the claim: diurnal iff the
\* house of the Sun from the Ascendant is in 7..12; Fortune is Asc + (Moon
\* - Sun) by day and Asc + (Sun - Moon) by night, Spirit the other one.
PartsFollowFormula(positions) ==
  LET sun  == LonOf(positions, "SOL")
      moon == LonOf(positions, "LUNA")
      asc  == LonOf(positions, "ASC")
      house   == 1 + ((sun - asc) % Full) \div Deg(30)
      diurnal == house \in 7..12
      byDay   == (asc + (moon - sun)) % Full
      byNight == (asc + (sun - moon)) % Full
  IN  /\ LonOf(positions, "PARTE_FORTUNA")
           = (IF diurnal THEN byDay ELSE byNight)
      /\ LonOf(positions, "PARTE_ESPIRITU")
           = (IF diurnal THEN byNight ELSE byDay)

HasParts(positions) ==
  /\ Named(positions, "PARTE_FORTUNA") # {}
  /\ Named(positions, "PARTE_ESPIRITU") # {}

\* C2: in every position list that contains PARTE_FORTUNA and
\* PARTE_ESPIRITU, on the ephemeris path, the simulated path and the
\* last-resort constant list alike, the two parts follow the formula.
C2_PartsFormula ==
  (Resolved /\ HasParts(ret.positions)) => PartsFollowFormula(ret.positions)

\* C2 on the two paths that compute the parts: there the formula holds,
\* by day and by night.
C2_PartsFormulaComputed ==
  (Resolved /\ HasParts(ret.positions) /\ ret.path # "last_resort")
    => PartsFollowFormula(ret.positions)

\* The list the resolver returns for the same instant, location, ephemeris
\* and angles in tropical mode.
TropicalTwin ==
  calculate_positions_with_utc([args EXCEPT !.use_sidereal = FALSE], env)

\* Every longitude of a sidereal-mode list is the tropical-mode longitude
\* of the same point less the ayanamsa, modulo 360.
SiderealOfTropical(positions) ==
  LET ay   == calculate_fagan_allen_ayanamsa(args.utc_datetime)
      twin == TropicalTwin
  IN  /\ Len(positions) = Len(twin)
      /\ \A i \in 1..Len(positions) :
           /\ positions[i].name = twin[i].name
           /\ positions[i].longitude
                = (twin[i].longitude - ay + Full) % Full

\* C3: for the same UTC instant and location, every longitude of the
\* sidereal-mode position list (bodies, ASC, MC, DSC, IC, the two parts)
\* is (tropical-mode longitude - ayanamsa(t) + 360) mod 360, with
\* ayanamsa(t) = 24.0 + 0.01397 per year since 2000-01-01T12:00:00Z,
\* exactly 24.0 at that epoch; no point is left uncorrected.
C3_SiderealEverywhere ==
  (Resolved /\ args.use_sidereal) =>
    /\ SiderealOfTropical(ret.positions)
    /\ (args.utc_datetime = 0) =>
         calculate_fagan_allen_ayanamsa(args.utc_datetime) = Deg(24)

\* C3 on the two paths that compute the list: there every longitude is
\* corrected.
C3_SiderealComputed ==
  (Resolved /\ args.use_sidereal /\ ret.path # "last_resort") =>
    SiderealOfTropical(ret.positions)

\* C7: in every position list returned when latitude and longitude are
\* given there is exactly one ASC and exactly one MC, DSC is (ASC + 180)
\* mod 360 and IC is (MC + 180) mod 360.
C7_AnglesOpposite ==
  (Resolved /\ args.coords) =>
    LET ps == ret.positions
    IN  /\ Cardinality(Named(ps, "ASC")) = 1
        /\ Cardinality(Named(ps, "MC")) = 1
        /\ Cardinality(Named(ps, "DSC")) = 1
        /\ Cardinality(Named(ps, "IC")) = 1
        /\ LonOf(ps, "DSC") = (LonOf(ps, "ASC") + Deg(180)) % Full
        /\ LonOf(ps, "IC") = (LonOf(ps, "MC") + Deg(180)) % Full

\* A sidereal list of the ephemeris path whose Ascendant is past 180, so
\* that the Descendant has wrapped.
C7_Witness ==
  /\ Resolved /\ args.coords /\ args.use_sidereal
  /\ ret.path = "ephemeris"
  /\ LonOf(ret.positions, "ASC") > Deg(180)
  /\ LonOf(ret.positions, "DSC") < Deg(180)

\* C8: on every path the motion state reported for SOL and for LUNA is
\* "direct", whatever the longitudes sampled at t - 1 day, t, t + 1 day.
C8_LuminariesDirect ==
  Resolved =>
    \A i \in 1..Len(ret.positions) :
      ret.positions[i].name \in {"SOL", "LUNA"}
        => ret.positions[i].motion_status = "direct"

\* An ephemeris in which the Sun's longitude falls on both days.
C8_Witness ==
  /\ Resolved /\ ret.path = "ephemeris"
  /\ env.eph["SOL"][1] > env.eph["SOL"][2]
  /\ env.eph["SOL"][2] > env.eph["SOL"][3]
  /\ \E i \in 1..Len(ret.positions) :
       ret.positions[i].name = "SOL"
         /\ ret.positions[i].motion_status = "direct"

\* ---------------------------------------------- determinar_horario_verano
\* Country names as the geocoder gives them ("" when it gives none).
Countries ==
  { "Spain", "Reino de España", "Argentina", "Mexico", "México",
    "United States", "Estados Unidos", "Australia", "New Zealand", "Nueva Zelanda", "Chile",
    "Paraguay", "France", "Brazil", "" }

\* str.lower() on those names.
lower(s) ==
  CASE s = "Spain"           -> "spain"
    [] s = "Reino de España" -> "reino de españa"
    [] s = "Argentina"       -> "argentina"
    [] s = "Mexico"          -> "mexico"
    [] s = "México"          -> "méxico"
    [] s = "United States"   -> "united states"
    [] s = "Estados Unidos"  -> "estados unidos"
    [] s = "Australia"       -> "australia"
    [] s = "New Zealand"     -> "new zealand"
    [] s = "Nueva Zelanda"   -> "nueva zelanda"
    [] s = "Chile"           -> "chile"
    [] s = "Paraguay"        -> "paraguay"
    [] s = "France"          -> "france"
    [] s = "Brazil"          -> "brazil"
    [] OTHER                 -> s

\* Python's `key in pais` (substring test) on the lowered names: the keys
\* the code looks for that occur in the name.
contains(pais, key) ==
  CASE pais = "reino de españa" -> key = "españa"
    [] pais = ""                -> FALSE
    [] OTHER                    -> key = pais

\* coordenadas.get("pais", "").lower()
pais_of(coordenadas) ==
  IF "pais" \in DOMAIN coordenadas THEN lower(coordenadas.pais) ELSE ""

is_spain(pais) == contains(pais, "spain") \/ contains(pais, "españa")

\* The approximation of the EU rule: April to September, March from the
\* 25th, October up to the 25th.
eu_rule(mes, dia) ==
  IF mes > 3 /\ mes < 10 THEN TRUE
  ELSE IF mes = 3 /\ dia >= 25 THEN TRUE
  ELSE IF mes = 10 /\ dia <= 25 THEN TRUE
  ELSE FALSE

\* The Spain branch with the rule of 1997 applied to every year.
spain_rule_eu_always(anio, mes, dia) == eu_rule(mes, dia)

\* The Spain branch.
spain_rule(anio, mes, dia) ==
  IF anio < 1974 THEN FALSE
  ELSE IF anio >= 1974 /\ anio <= 1975
  THEN \/ (mes > 4 /\ mes < 10)
       \/ (mes = 4 /\ dia >= 13)
       \/ (mes = 10 /\ dia <= 6)
  ELSE IF anio >= 1976 /\ anio <= 1996
  THEN mes > 3 /\ mes < 10
  ELSE eu_rule(mes, dia)

\* The northern branch without its year test.
north_rule_every_year(anio, mes, dia) == eu_rule(mes, dia)

\* The branch of the other countries of the northern hemisphere.
north_rule(anio, mes, dia) ==
  IF anio < 1970 THEN FALSE ELSE eu_rule(mes, dia)

south_dst_countries ==
  <<"australia", "new zealand", "nueva zelanda", "chile", "paraguay">>

\* The branch of the southern hemisphere.
south_rule(pais, mes, dia) ==
  LET pais_usa_dst ==
        \E i \in 1..Len(south_dst_countries) :
          contains(pais, south_dst_countries[i])
  IN  IF ~pais_usa_dst THEN FALSE
      ELSE IF mes < 3 \/ mes > 10 THEN TRUE
      ELSE IF mes = 3 /\ dia <= 25 THEN TRUE
      ELSE IF mes = 10 /\ dia >= 25 THEN TRUE
      ELSE FALSE

determinar_horario_verano(fecha, hemisferio, coordenadas) ==
  LET pais == pais_of(coordenadas)
  IN  IF is_spain(pais) THEN spain_rule(fecha.year, fecha.month, fecha.day)
      ELSE IF hemisferio = "norte"
      THEN north_rule(fecha.year, fecha.month, fecha.day)
      ELSE south_rule(pais, fecha.month, fecha.day)

\* ------------------------------------------------------- calendar dates
\* datetime's calendar: leap years and the days of a month.
is_leap(year) ==
  year % 4 = 0 /\ (year % 100 # 0 \/ year % 400 = 0)

days_in_month(year, month) ==
  IF month = 2 THEN (IF is_leap(year) THEN 29 ELSE 28)
  ELSE IF month \in {4, 6, 9, 11} THEN 30 ELSE 31

\* The dates datetime accepts.
valid_date(year, month, day) ==
  /\ year \in 1..9999
  /\ month \in 1..12
  /\ day \in 1..days_in_month(year, month)

\* --------------------------- specification: determinar_horario_verano
\* Years either side of every year the rules test, and two recent ones.
DstYears == {1969, 1970, 1973, 1974, 1975, 1976, 1980, 1996, 1997, 2024}

\* Days either side of the 6th, the 13th and the 25th, and the month ends.
DstDays == {1, 6, 7, 12, 13, 24, 25, 26, 28, 29, 30, 31}

DstDates ==
  { f \in [year : DstYears, month : 1..12, day : DstDays] :
      valid_date(f.year, f.month, f.day) }

InitDst ==
  /\ pc = "call"
  /\ args \in { [fn |-> "determinar_horario_verano", fecha |-> f,
                 hemisferio |-> h, coordenadas |-> [pais |-> c]] :
                  f \in { x \in DstDates : x.day # 29 /\ x.day # 30 },
                  h \in {"norte", "sur"}, c \in Countries }
          \cup { [fn |-> "determinar_horario_verano", fecha |-> f,
                  hemisferio |-> h, coordenadas |-> [lat |-> 0]] :
                   f \in { x \in DstDates : x.month \in {3, 10} },
                   h \in {"norte", "sur"} }
  /\ env = NoEnv
  /\ ret = NoRet

Call_determinar_horario_verano ==
  /\ pc = "call"
  /\ args.fn = "determinar_horario_verano"
  /\ ret' = [kind |-> "bool",
             value |-> determinar_horario_verano(args.fecha, args.hemisferio,
                                                 args.coordenadas)]
  /\ pc' = "done"
  /\ UNCHANGED <<args, env>>

NextDst == Call_determinar_horario_verano

SpecDst == InitDst /\ [][NextDst]_vars

\* The call of determinar_horario_verano has returned.
DstReturned == pc = "done" /\ args.fn = "determinar_horario_verano"

\* Month and day as one number: April 13 is 413.
MonthDay(fecha) == 100 * fecha.month + fecha.day

\* C11: for a country matched as Spain, whatever the hemisphere argument,
\* no date before 1974 is DST; in 1974-1975 the DST dates are exactly April
\* 13 to October 6; in 1976-1996 every DST date lies in March-October,
\* every date of April-September is DST and none of November-February is;
\* so 1980-06-01 is DST and 1970-06-01 is not.
C11_SpainDst ==
  (DstReturned /\ is_spain(pais_of(args.coordenadas))) =>
    LET f == args.fecha
    IN  /\ f.year < 1974 => ~ret.value
        /\ f.year \in 1974..1975 =>
             (ret.value <=> MonthDay(f) \in 413..1006)
        /\ f.year \in 1976..1996 =>
             /\ ret.value => f.month \in 3..10
             /\ f.month \in 4..9 => ret.value
             /\ f.month \in {11, 12, 1, 2} => ~ret.value
        /\ (f.year = 1980 /\ MonthDay(f) = 601) => ret.value
        /\ (f.year = 1970 /\ MonthDay(f) = 601) => ~ret.value
        /\ \A h \in {"norte", "sur"} :
             determinar_horario_verano(f, h, args.coordenadas) = ret.value

\* Spain reported in the southern hemisphere on the last DST day of 1975.
C11_Witness ==
  /\ DstReturned
  /\ is_spain(pais_of(args.coordenadas))
  /\ args.hemisferio = "sur"
  /\ args.fecha.year = 1975
  /\ MonthDay(args.fecha) = 1006
  /\ ret.value

\* The window of the claim: April-September, March from the 25th, October
\* up to the 25th.
InNorthWindow(f) ==
  \/ f.month \in 4..9
  \/ (f.month = 3 /\ f.day >= 25)
  \/ (f.month = 10 /\ f.day <= 25)

\* The inverted window: November-February, March up to the 25th, October
\* from the 25th.
InSouthWindow(f) ==
  \/ f.month \in {11, 12, 1, 2}
  \/ (f.month = 3 /\ f.day <= 25)
  \/ (f.month = 10 /\ f.day >= 25)

SouthAllowList ==
  {"australia", "new zealand", "nueva zelanda", "chile", "paraguay"}

\* C12: Spain from 1997 and any other northern country from 1970 are in
\* DST iff the date is in the northern window, other northern countries
\* never before 1970; a southern country is never in DST unless it is
\* Australia, New Zealand, Chile or Paraguay, and then iff the date is in
\* the inverted window.
C12_GenericDst ==
  DstReturned =>
    LET f    == args.fecha
        pais == pais_of(args.coordenadas)
    IN  IF is_spain(pais)
        THEN f.year >= 1997 => (ret.value <=> InNorthWindow(f))
        ELSE IF args.hemisferio = "norte"
        THEN IF f.year >= 1970 THEN ret.value <=> InNorthWindow(f)
             ELSE ~ret.value
        ELSE IF pais \in SouthAllowList
        THEN ret.value <=> InSouthWindow(f)
        ELSE ~ret.value

\* A northern country other than Spain before 1970, on a date of the
\* window.
C12_Witness ==
  /\ DstReturned
  /\ pais_of(args.coordenadas) = "france"
  /\ args.hemisferio = "norte"
  /\ args.fecha.year = 1969
  /\ MonthDay(args.fecha) = 325
  /\ ~ret.value

\* -------------------------------------------------- obtener_zona_horaria
\* Offsets are kept in minutes: Hours(h) is the offset of h hours.
Hours(h) == 60 * h

\* Python's round() of n / d (d > 0) to an integer: ties go to the even
\* one.
round_div(n, d) ==
  LET q == n \div d
      r == n % d
  IN  IF 2 * r < d THEN q
      ELSE IF 2 * r > d THEN q + 1
      ELSE IF q % 2 = 0 THEN q ELSE q + 1

\* round(lon / 15), for a longitude on the grid of 1/Scale degree.
estimate_hours(lon) == round_div(lon, 15 * Scale)

\* The override of Mexico without its DST hour.
country_zone_mexico_fixed(pais, is_dst) ==
  IF is_spain(pais)
  THEN [matched |-> TRUE, name |-> <<"Europe/Madrid">>,
        abbr |-> IF is_dst THEN <<"CEST">> ELSE <<"CET">>,
        offset |-> IF is_dst THEN Hours(2) ELSE Hours(1)]
  ELSE IF contains(pais, "argentina")
  THEN [matched |-> TRUE, name |-> <<"America/Argentina/Buenos_Aires">>,
        abbr |-> <<"ART">>, offset |-> Hours(0 - 3)]
  ELSE IF contains(pais, "mexico") \/ contains(pais, "méxico")
  THEN [matched |-> TRUE, name |-> <<"America/Mexico_City">>,
        abbr |-> <<"CST">>, offset |-> Hours(0 - 6)]
  ELSE [matched |-> FALSE, name |-> <<"UTC">>, abbr |-> <<"UTC">>,
        offset |-> 0]

\* The branches for the countries the code knows: zone name, abbreviation
\* and offset; matched is FALSE in the else branch.
country_zone(pais, is_dst) ==
  IF is_spain(pais)
  THEN [matched |-> TRUE, name |-> <<"Europe/Madrid">>,
        abbr |-> IF is_dst THEN <<"CEST">> ELSE <<"CET">>,
        offset |-> IF is_dst THEN Hours(2) ELSE Hours(1)]
  ELSE IF contains(pais, "argentina")
  THEN [matched |-> TRUE, name |-> <<"America/Argentina/Buenos_Aires">>,
        abbr |-> <<"ART">>, offset |-> Hours(0 - 3)]
  ELSE IF contains(pais, "mexico") \/ contains(pais, "méxico")
  THEN [matched |-> TRUE, name |-> <<"America/Mexico_City">>,
        abbr |-> IF is_dst THEN <<"CDT">> ELSE <<"CST">>,
        offset |-> IF is_dst THEN Hours(0 - 5) ELSE Hours(0 - 6)]
  ELSE [matched |-> FALSE, name |-> <<"UTC">>, abbr |-> <<"UTC">>,
        offset |-> 0]

\* zone['utc_offset'] / 3600, in minutes.
csv_offset(zone) == zone.utc_offset \div 60

\* The index of the zone the loop over time_zone_df keeps: the first one
\* whose offset is nearest to the estimate.
closest_zone(tzdf, estimated_offset) ==
  LET diff(i) == Abs(csv_offset(tzdf[i]) - Hours(estimated_offset))
  IN  CHOOSE i \in 1..Len(tzdf) :
        /\ \A j \in 1..Len(tzdf) : diff(i) <= diff(j)
        /\ \A j \in 1..(i - 1) : diff(j) > diff(i)

\* The else branch: the nearest zone of the table, or the estimate when
\* the table is empty.
table_zone(tzdf, estimated_offset, is_dst) ==
  IF Len(tzdf) > 0
  THEN LET zone == tzdf[closest_zone(tzdf, estimated_offset)]
       IN  [name |-> <<zone.timezone>>, abbr |-> <<zone.abbreviation>>,
            offset |-> csv_offset(zone)
                         + (IF is_dst /\ zone.dst = 1 THEN Hours(1) ELSE 0)]
  ELSE [name |-> <<"Estimated/GMT", estimated_offset>>,
        abbr |-> <<"GMT", estimated_offset>>,
        offset |-> Hours(estimated_offset)]

hemisphere_of(lat) == IF lat >= 0 THEN "norte" ELSE "sur"

\* The try block raises: a key is missing or strptime rejects the date.
zona_primary_raises(coordenadas, fecha) ==
  \/ "lat" \notin DOMAIN coordenadas
  \/ "lon" \notin DOMAIN coordenadas
  \/ ~valid_date(fecha.year, fecha.month, fecha.day)

\* The try block, when it does not raise.
zona_primary(coordenadas, fecha, tzdf) ==
  LET hemisferio == hemisphere_of(coordenadas.lat)
      is_dst == determinar_horario_verano(fecha, hemisferio, coordenadas)
      estimated_offset == estimate_hours(coordenadas.lon)
      pais == pais_of(coordenadas)
      known == country_zone(pais, is_dst)
      zone == IF known.matched THEN known
              ELSE table_zone(tzdf, estimated_offset, is_dst)
  IN  [name |-> zone.name, offset |-> zone.offset,
       abbreviation_STD |-> zone.abbr, abbreviation_DST |-> zone.abbr,
       is_dst |-> is_dst, hemisphere |-> hemisferio]

\* The offset of the except block without the countries the code knows.
estimate_offset_pure(pais, lon) == estimate_hours(lon)

\* The offset (in hours) of the except block: the rounded longitude unless
\* the country is one the code knows.
estimate_offset(pais, lon) ==
  IF is_spain(pais) THEN 1
  ELSE IF contains(pais, "argentina") THEN 0 - 3
  ELSE IF contains(pais, "mexico") \/ contains(pais, "méxico") THEN 0 - 6
  ELSE IF contains(pais, "united states")
            \/ contains(pais, "estados unidos")
  THEN IF lon < Deg(0 - 100) THEN 0 - 8
       ELSE IF lon < Deg(0 - 90) THEN 0 - 7
       ELSE IF lon < Deg(0 - 75) THEN 0 - 6
       ELSE 0 - 5
  ELSE estimate_hours(lon)

\* The except block raises: the longitude or the latitude is missing.
zona_estimate_raises(coordenadas) ==
  \/ "lon" \notin DOMAIN coordenadas
  \/ "lat" \notin DOMAIN coordenadas

\* The except block, when it does not raise.
zona_estimate(coordenadas) ==
  LET lon == coordenadas.lon
      estimated_offset == estimate_offset(pais_of(coordenadas), lon)
  IN  [name |-> <<"GMT", estimated_offset>>,
       offset |-> Hours(estimated_offset),
       abbreviation_STD |-> <<"GMT", estimated_offset>>,
       abbreviation_DST |-> <<"GMT", estimated_offset>>,
       is_dst |-> FALSE,
       hemisphere |-> hemisphere_of(coordenadas.lat),
       lon |-> lon]

\* The value returned when the except block raises too.
zona_utc ==
  [name |-> <<"UTC">>, offset |-> 0, abbreviation_STD |-> <<"UTC">>,
   abbreviation_DST |-> <<"UTC">>, is_dst |-> FALSE, hemisphere |-> "norte",
   estimated |-> TRUE]

\* The block that returns, and the TimezoneInfo it returns.
obtener_zona_horaria(coordenadas, fecha, tzdf) ==
  IF ~zona_primary_raises(coordenadas, fecha)
  THEN [path |-> "primary", value |-> zona_primary(coordenadas, fecha, tzdf)]
  ELSE IF ~zona_estimate_raises(coordenadas)
  THEN [path |-> "estimate", value |-> zona_estimate(coordenadas)]
  ELSE [path |-> "utc", value |-> zona_utc]

\* ------------------------------- specification: obtener_zona_horaria
\* time_zone_df as preload_resources leaves it: empty, or rows of the
\* reference table (utc_offset in seconds).
ZoneTables ==
  { <<>>,
    << [timezone |-> "Africa/Abidjan", abbreviation |-> "GMT",
        utc_offset |-> 0, dst |-> 0],
       [timezone |-> "Europe/Paris", abbreviation |-> "CEST",
        utc_offset |-> 7200, dst |-> 1],
       [timezone |-> "Europe/Paris", abbreviation |-> "CET",
        utc_offset |-> 3600, dst |-> 0],
       [timezone |-> "Asia/Kolkata", abbreviation |-> "IST",
        utc_offset |-> 19800, dst |-> 0],
       [timezone |-> "Australia/Sydney", abbreviation |-> "AEDT",
        utc_offset |-> 39600, dst |-> 1] >> }

\* The grid value of n hundredths of a degree.
Hundredths(n) == (n * Scale) \div 100

\* Longitudes of Madrid, Buenos Aires, Mexico City, Paris, Sydney, two
\* ties of round(lon / 15), Kolkata and the bands of the United States.
ZoneLons ==
  { Hundredths(n) :
      n \in { 0 - 370, 0 - 5840, 0 - 9913, 235, 15120, 750, 2250, 8250,
              0 - 10001, 0 - 9500, 0 - 8000, 0 - 7000 } }

\* Latitudes of either hemisphere.
ZoneLats == { Hundredths(4040), 0, Hundredths(0 - 3460) }

\* The dates the strings spell: winter and summer days, a year before the
\* rules start, and two strings strptime rejects.
ZoneFechas ==
  { [year |-> 2000, month |-> 1, day |-> 15],
    [year |-> 2000, month |-> 7, day |-> 15],
    [year |-> 1969, month |-> 7, day |-> 15],
    [year |-> 2000, month |-> 2, day |-> 30],
    [year |-> 2000, month |-> 13, day |-> 1] }

\* The dictionaries of the keys lat, lon, pais, each present or not.
Coordenadas ==
  { [lat |-> la, lon |-> lo, pais |-> c] :
      la \in ZoneLats, lo \in ZoneLons, c \in Countries }
  \cup { [lat |-> la, lon |-> lo] : la \in ZoneLats, lo \in ZoneLons }
  \cup { [lat |-> la, pais |-> c] : la \in ZoneLats, c \in Countries }
  \cup { [lon |-> lo, pais |-> c] : lo \in ZoneLons, c \in Countries }
  \cup { [pais |-> c] : c \in Countries }

InitZone ==
  /\ pc = "call"
  /\ args \in { [fn |-> "obtener_zona_horaria", coordenadas |-> c,
                 fecha |-> f] : c \in Coordenadas, f \in ZoneFechas }
  /\ env \in { [kind |-> "table", time_zone_df |-> t] : t \in ZoneTables }
  /\ ret = NoRet

Call_obtener_zona_horaria ==
  /\ pc = "call"
  /\ args.fn = "obtener_zona_horaria"
  /\ LET r == obtener_zona_horaria(args.coordenadas, args.fecha,
                                   env.time_zone_df)
     IN  ret' = [kind |-> "timezone", path |-> r.path, value |-> r.value]
  /\ pc' = "done"
  /\ UNCHANGED <<args, env>>

NextZone == Call_obtener_zona_horaria

SpecZone == InitZone /\ [][NextZone]_vars

\* The call of obtener_zona_horaria has returned.
ZoneReturned == pc = "done" /\ args.fn = "obtener_zona_horaria"

IsArgentina(pais) == contains(pais, "argentina")

IsMexico(pais) == contains(pais, "mexico") \/ contains(pais, "méxico")

IsUnitedStates(pais) ==
  contains(pais, "united states") \/ contains(pais, "estados unidos")

HasLatLon(coordenadas) ==
  "lat" \in DOMAIN coordenadas /\ "lon" \in DOMAIN coordenadas

\* C13: when the country of the coordinates matches Spain, Argentina or
\* Mexico the offset is the one of the country alone: Spain +1 (+2 when
\* is_dst), Mexico -6 (-5 when is_dst), Argentina -3 on every date; another
\* longitude or another reference table gives the same offset.
C13_CountryOverride ==
  (ZoneReturned /\ HasLatLon(args.coordenadas)) =>
    LET pais == pais_of(args.coordenadas)
        v    == ret.value
    IN  /\ is_spain(pais) =>
             v.offset = (IF v.is_dst THEN Hours(2) ELSE Hours(1))
        /\ (~is_spain(pais) /\ IsArgentina(pais)) => v.offset = Hours(0 - 3)
        /\ (~is_spain(pais) /\ ~IsArgentina(pais) /\ IsMexico(pais)) =>
             v.offset = (IF v.is_dst THEN Hours(0 - 5) ELSE Hours(0 - 6))
        /\ (is_spain(pais) \/ IsArgentina(pais) \/ IsMexico(pais)) =>
             \A lo \in ZoneLons, t \in ZoneTables :
               obtener_zona_horaria([args.coordenadas EXCEPT !.lon = lo],
                                    args.fecha, t).value.offset = v.offset

\* Mexico in summer, with a reference table loaded.
C13_Witness ==
  /\ ZoneReturned
  /\ HasLatLon(args.coordenadas)
  /\ IsMexico(pais_of(args.coordenadas))
  /\ Len(env.time_zone_df) > 0
  /\ ret.path = "primary"
  /\ ret.value.is_dst
  /\ ret.value.offset = Hours(0 - 5)

\* The primary resolution fails: the date does not parse or a coordinate
\* is missing.
PrimaryFails ==
  \/ ~valid_date(args.fecha.year, args.fecha.month, args.fecha.day)
  \/ ~HasLatLon(args.coordenadas)

\* The record returned when everything fails.
IsUtcDefault(v) ==
  /\ v.name = <<"UTC">>
  /\ v.offset = 0
  /\ ~v.is_dst
  /\ "estimated" \in DOMAIN v

\* The chain of fallbacks, the estimate having the offset EstimateOf.
FallbackChain(EstimateOf(_, _)) ==
  ZoneReturned =>
    LET c == args.coordenadas
        v == ret.value
    IN  /\ v.offset \in Int
        /\ (PrimaryFails /\ HasLatLon(c)) =>
             /\ v.offset = Hours(EstimateOf(pais_of(c), c.lon))
             /\ ~v.is_dst
        /\ (PrimaryFails /\ ~HasLatLon(c)) => IsUtcDefault(v)
        /\ IsUtcDefault(v) => (PrimaryFails /\ ~HasLatLon(c))

PureLongitudeEstimate(pais, lon) == round_div(lon, 15 * Scale)

\* C16: obtener_zona_horaria always returns a TimezoneInfo with a numeric
\* offset; when the primary resolution fails it returns the estimate
\* round(lon / 15) with is_dst false; when longitude or latitude is missing
\* it returns UTC with offset 0, and in no other case.
C16_FallbackChain == FallbackChain(PureLongitudeEstimate)

\* The offset of the estimate: the country's standard offset for Spain,
\* Argentina and Mexico, the longitude band for the United States, and
\* round(lon / 15) for every other country.
CountryOrLongitudeEstimate(pais, lon) ==
  IF is_spain(pais) THEN 1
  ELSE IF IsArgentina(pais) THEN 0 - 3
  ELSE IF IsMexico(pais) THEN 0 - 6
  ELSE IF IsUnitedStates(pais)
  THEN (IF lon < Deg(0 - 100) THEN 0 - 8
        ELSE IF lon < Deg(0 - 90) THEN 0 - 7
        ELSE IF lon < Deg(0 - 75) THEN 0 - 6 ELSE 0 - 5)
  ELSE round_div(lon, 15 * Scale)

\* C16 as amended: the same chain, the estimate being round(lon / 15)
\* only for countries other than Spain, Argentina, Mexico and the United
\* States, which get +1, -3, -6 and the band -8, -7, -6 or -5.
C16_FallbackChainAmended == FallbackChain(CountryOrLongitudeEstimate)

\* Madrid with a date that does not parse: the estimate is +1, not
\* round(-3.7 / 15) = 0.
C16_Witness ==
  /\ ZoneReturned
  /\ ~valid_date(args.fecha.year, args.fecha.month, args.fecha.day)
  /\ HasLatLon(args.coordenadas)
  /\ is_spain(pais_of(args.coordenadas))
  /\ args.coordenadas.lon = Hundredths(0 - 370)
  /\ "lon" \in DOMAIN ret.value
  /\ ret.value.offset = Hours(1)

\* ------------------------------------------------------ convertir_a_utc
\* datetime keeps a calendar date and a time of day; its arithmetic goes
\* through the ordinal of the date (the day 0001-01-01 is day 1).
days_before_year(year) ==
  LET y == year - 1
  IN  y * 365 + y \div 4 - y \div 100 + y \div 400

RECURSIVE days_before_month(_, _)
days_before_month(year, month) ==
  IF month = 1 THEN 0
  ELSE days_before_month(year, month - 1) + days_in_month(year, month - 1)

ymd2ord(year, month, day) ==
  days_before_year(year) + days_before_month(year, month) + day

\* The ordinal of 9999-12-31, the last day datetime represents.
max_ordinal == ymd2ord(9999, 12, 31)

ord2ymd(n) ==
  LET year  == CHOOSE y \in (n \div 366 + 1)..(n \div 365 + 1) :
                 days_before_year(y) < n /\ n <= days_before_year(y + 1)
      rest  == n - days_before_year(year)
      month == CHOOSE m \in 1..12 :
                 /\ days_before_month(year, m) < rest
                 /\ rest <= days_before_month(year, m)
                              + days_in_month(year, m)
  IN  [year |-> year, month |-> month,
       day |-> rest - days_before_month(year, month)]

\* datetime.strptime(f"{fecha} {hora}", "%Y-%m-%d %H:%M") accepts the
\* strings: fecha and hora are the numbers the strings spell.
strptime_ok(fecha, hora) ==
  /\ valid_date(fecha.year, fecha.month, fecha.day)
  /\ hora.hour \in 0..23
  /\ hora.minute \in 0..59

strptime(fecha, hora) ==
  [year |-> fecha.year, month |-> fecha.month, day |-> fecha.day,
   hour |-> hora.hour, minute |-> hora.minute]

\* timezone(timedelta(hours=h)) accepts offsets strictly between -24 and
\* 24 hours.
timezone_ok(offset) == 0 - Hours(24) < offset /\ offset < Hours(24)

\* The day and the minute of the day with the offset added instead of
\* subtracted.
utc_day_minute_added(dt, offset) ==
  LET m == 60 * dt.hour + dt.minute + offset
  IN  <<ymd2ord(dt.year, dt.month, dt.day) + m \div 1440, m % 1440>>

\* The day and the minute of the day of dt - offset.
utc_day_minute(dt, offset) ==
  LET m == 60 * dt.hour + dt.minute - offset
  IN  <<ymd2ord(dt.year, dt.month, dt.day) + m \div 1440, m % 1440>>

\* astimezone raises OverflowError when the instant leaves years 1..9999.
astimezone_ok(dt, offset) ==
  utc_day_minute(dt, offset)[1] \in 1..max_ordinal

\* dt.replace(tzinfo=timezone(offset)).astimezone(timezone.utc)
astimezone_utc(dt, offset) ==
  LET dm == utc_day_minute(dt, offset)
  IN  ord2ymd(dm[1]) @@ [hour |-> dm[2] \div 60, minute |-> dm[2] % 60]

\* The try block raises.
convertir_try_raises(fecha, hora, timezone_info) ==
  \/ ~strptime_ok(fecha, hora)
  \/ "offset" \notin DOMAIN timezone_info
  \/ ~timezone_ok(timezone_info.offset)
  \/ ~astimezone_ok(strptime(fecha, hora), timezone_info.offset)

\* The except block: strptime again, then the estimate from the longitude
\* when timezone_info has one, else the local time taken as UTC.
convertir_except(fecha, hora, timezone_info) ==
  IF ~strptime_ok(fecha, hora)
  THEN [kind |-> "raised", error |-> "ValueError"]
  ELSE LET dt_local == strptime(fecha, hora)
       IN  IF "lon" \in DOMAIN timezone_info
           THEN LET est_offset == Hours(estimate_hours(timezone_info.lon))
                IN  IF ~timezone_ok(est_offset)
                    THEN [kind |-> "raised", error |-> "ValueError"]
                    ELSE IF ~astimezone_ok(dt_local, est_offset)
                    THEN [kind |-> "raised", error |-> "OverflowError"]
                    ELSE [kind |-> "utc", path |-> "lon",
                          value |-> astimezone_utc(dt_local, est_offset)]
           ELSE [kind |-> "utc", path |-> "local", value |-> dt_local]

convertir_a_utc(fecha, hora, timezone_info) ==
  IF ~convertir_try_raises(fecha, hora, timezone_info)
  THEN [kind |-> "utc", path |-> "offset",
        value |-> astimezone_utc(strptime(fecha, hora),
                                 timezone_info.offset)]
  ELSE convertir_except(fecha, hora, timezone_info)

\* ------------------------------------ specification: convertir_a_utc
\* Dates at the ends of months, of years, of February in leap and common
\* years, at both ends of datetime's range, and two strptime rejects.
UtcFechas ==
  { [year |-> f[1], month |-> f[2], day |-> f[3]] :
      f \in { <<1999, 12, 31>>, <<2000, 1, 1>>, <<2000, 2, 28>>,
              <<2000, 2, 29>>, <<2000, 3, 1>>, <<1900, 2, 28>>,
              <<1900, 3, 1>>, <<2001, 6, 30>>, <<1, 1, 1>>,
              <<9999, 12, 31>>, <<2001, 2, 29>>, <<2000, 13, 1>> } }

\* Times at both ends of the day, and two strptime rejects.
UtcHoras ==
  { [hour |-> h[1], minute |-> h[2]] :
      h \in { <<0, 0>>, <<0, 30>>, <<12, 0>>, <<23, 59>>, <<24, 0>>,
              <<12, 60>> } }

\* Offsets in minutes: whole and fractional hours of both signs, the ends
\* of the range timezone() accepts, and the first values it rejects.
UtcOffsets ==
  { 0 - 1440, 0 - 1439, 0 - 720, 0 - 300, 0 - 210, 0, 60, 120, 330, 345,
    900, 1439, 1440 }

\* TimezoneInfo as far as convertir_a_utc reads it: offset and lon, each
\* present or not.
TimezoneInfos ==
  { [offset |-> o] : o \in UtcOffsets }
  \cup { [offset |-> o, lon |-> lo] :
           o \in UtcOffsets, lo \in { Hundredths(0 - 5840), Hundredths(750) } }
  \cup { [lon |-> lo] : lo \in { Hundredths(0 - 5840), Hundredths(2250) } }
  \cup { [name |-> <<"UTC">>] }

InitUtc ==
  /\ pc = "call"
  /\ args \in { [fn |-> "convertir_a_utc", fecha |-> f, hora |-> h,
                 timezone_info |-> tz] :
                  f \in UtcFechas, h \in UtcHoras, tz \in TimezoneInfos }
  /\ env = NoEnv
  /\ ret = NoRet

Call_convertir_a_utc ==
  /\ pc = "call"
  /\ args.fn = "convertir_a_utc"
  /\ ret' = convertir_a_utc(args.fecha, args.hora, args.timezone_info)
  /\ pc' = "done"
  /\ UNCHANGED <<args, env>>

NextUtc == Call_convertir_a_utc

SpecUtc == InitUtc /\ [][NextUtc]_vars

\* The call of convertir_a_utc is over.
UtcReturned == pc = "done" /\ args.fn = "convertir_a_utc"

\* The day after and the day before a calendar date.
NextDay(d) ==
  IF d.day < days_in_month(d.year, d.month)
  THEN [d EXCEPT !.day = d.day + 1]
  ELSE IF d.month < 12 THEN [d EXCEPT !.month = d.month + 1, !.day = 1]
  ELSE [d EXCEPT !.year = d.year + 1, !.month = 1, !.day = 1]

PrevDay(d) ==
  IF d.day > 1 THEN [d EXCEPT !.day = d.day - 1]
  ELSE IF d.month > 1
  THEN [d EXCEPT !.month = d.month - 1,
                 !.day = days_in_month(d.year, d.month - 1)]
  ELSE [d EXCEPT !.year = d.year - 1, !.month = 12, !.day = 31]

\* The timestamp k minutes after dt (less than a day either way), rolled
\* over the calendar.
Shift(dt, k) ==
  LET m   == 60 * dt.hour + dt.minute + k
      day == IF m < 0 THEN PrevDay(dt)
             ELSE IF m >= 1440 THEN NextDay(dt) ELSE dt
  IN  [day EXCEPT !.hour = (m % 1440) \div 60, !.minute = m % 60]

\* The local timestamp the strings spell is well formed, the offset is one
\* a time zone can have, and the UTC instant lies in years 1..9999.
C14_Case ==
  /\ UtcReturned
  /\ strptime_ok(args.fecha, args.hora)
  /\ "offset" \in DOMAIN args.timezone_info
  /\ Abs(args.timezone_info.offset) < 1440
  /\ Shift(strptime(args.fecha, args.hora),
           0 - args.timezone_info.offset).year \in 1..9999

\* C14: for a well-formed local date and time and an offset of h hours
\* (negative, positive or fractional) convertir_a_utc returns the local
\* timestamp minus h hours, rolled over day, month and year boundaries;
\* adding h hours to the result gives the local timestamp again.
C14_UtcIsLocalMinusOffset ==
  C14_Case =>
    LET local == strptime(args.fecha, args.hora)
        h     == args.timezone_info.offset
    IN  /\ ret.kind = "utc"
        /\ ret.value = Shift(local, 0 - h)
        /\ valid_date(ret.value.year, ret.value.month, ret.value.day)
        /\ Shift(ret.value, h) = local

\* 2000-03-01 00:30 at +5:30 is 2000-02-29 19:00 UTC.
C14_Witness ==
  /\ C14_Case
  /\ args.fecha = [year |-> 2000, month |-> 3, day |-> 1]
  /\ args.hora = [hour |-> 0, minute |-> 30]
  /\ args.timezone_info.offset = 330
  /\ ret.value = [year |-> 2000, month |-> 2, day |-> 29, hour |-> 19,
                  minute |-> 0]

\* C15: convertir_a_utc never raises: whatever the date string, the time
\* string and the TimezoneInfo, it returns a UTC instant, which after a
\* failure is the local timestamp less round(lon / 15) hours when the
\* TimezoneInfo has a longitude and the local timestamp itself otherwise.
C15_NeverRaises ==
  UtcReturned =>
    /\ ret.kind = "utc"
    /\ ret.path = "lon" =>
         ret.value = Shift(strptime(args.fecha, args.hora),
                           0 - Hours(round_div(args.timezone_info.lon,
                                               15 * Scale)))
    /\ ret.path = "local" => ret.value = strptime(args.fecha, args.hora)

\* C15 for strings strptime accepts and instants inside years 1..9999:
\* there a missing or unrepresentable offset degrades as claimed.
C15_DegradesWhenParsable ==
  (UtcReturned /\ strptime_ok(args.fecha, args.hora)
     /\ args.fecha.year \in 2..9998) =>
    /\ ret.kind = "utc"
    /\ ("offset" \in DOMAIN args.timezone_info
          /\ Abs(args.timezone_info.offset) < 1440) <=> ret.path = "offset"
    /\ ret.path = "lon" <=>
         /\ ~("offset" \in DOMAIN args.timezone_info
                /\ Abs(args.timezone_info.offset) < 1440)
         /\ "lon" \in DOMAIN args.timezone_info
    /\ ret.path = "lon" =>
         ret.value = Shift(strptime(args.fecha, args.hora),
                           0 - Hours(round_div(args.timezone_info.lon,
                                               15 * Scale)))
    /\ ret.path = "local" => ret.value = strptime(args.fecha, args.hora)

\* ------------------------------------------- claims on the record shape
HasTropicalPair(p) ==
  "tropical_longitude" \in DOMAIN p /\ "tropical_sign" \in DOMAIN p

HasNoTropicalField(p) ==
  "tropical_longitude" \notin DOMAIN p /\ "tropical_sign" \notin DOMAIN p

\* C17: in every position list the resolver returns, every position has
\* tropical_longitude and tropical_sign when sidereal mode was requested
\* and none has either when it was not: bodies, angles and parts alike, on
\* the ephemeris, simulated and last-resort paths.
C17_TropicalFieldsUniform ==
  Resolved =>
    \A i \in 1..Len(ret.positions) :
      IF args.use_sidereal THEN HasTropicalPair(ret.positions[i])
      ELSE HasNoTropicalField(ret.positions[i])

\* C17 for the bodies and the four angles on the two computed paths: these
\* carry the pair exactly in sidereal mode.
C17_BodiesAndAnglesUniform ==
  (Resolved /\ ret.path # "last_resort") =>
    \A i \in 1..Len(ret.positions) :
      ret.positions[i].name \notin {"PARTE_FORTUNA", "PARTE_ESPIRITU"} =>
        IF args.use_sidereal THEN HasTropicalPair(ret.positions[i])
        ELSE HasNoTropicalField(ret.positions[i])

\* The list the ephemeris path returns for the request of this state.
PrimaryTwin ==
  positions_from_ephemeris(args.utc_datetime, args.coords,
                           args.use_sidereal, env.eph, env.asc_mc)

\* C18: when the ephemeris path fails, the list of the fallback has the
\* shape of the list of the ephemeris path for the same request: the same
\* sequence of names, and position by position the same set of fields.
C18_FallbackSameShape ==
  (Resolved /\ ret.path # "ephemeris") =>
    LET primary == PrimaryTwin
    IN  /\ Len(ret.positions) = Len(primary)
        /\ \A i \in 1..Len(primary) :
             /\ ret.positions[i].name = primary[i].name
             /\ DOMAIN ret.positions[i] = DOMAIN primary[i]

\* C18 for the simulated path alone: the names agree, and the fields agree
\* but for daily_motion, which the simulated bodies lack.
C18_SimulatedShapeButDailyMotion ==
  (Resolved /\ ret.path = "simulated") =>
    LET primary == PrimaryTwin
    IN  /\ Len(ret.positions) = Len(primary)
        /\ \A i \in 1..Len(primary) :
             /\ ret.positions[i].name = primary[i].name
             /\ DOMAIN ret.positions[i] \cup {"daily_motion"}
                  = DOMAIN primary[i] \cup {"daily_motion"}
             /\ "daily_motion" \notin DOMAIN ret.positions[i]

\* ------------------------------------------ calculate_positions_aspects
\* The list with the three outer bodies added.
traditional_planets_all ==
  <<"SOL", "LUNA", "MERCURIO", "VENUS", "MARTE", "JÚPITER", "SATURNO",
    "URANO", "NEPTUNO", "PLUTÓN">>

traditional_planets ==
  <<"SOL", "LUNA", "MERCURIO", "VENUS", "MARTE", "JÚPITER", "SATURNO">>

\* p["name"] in traditional_planets
is_traditional(p) ==
  \E k \in 1..Len(traditional_planets) : traditional_planets[k] = p.name

\* The record appended for two positions when their separation has a
\* tier: a list of one record, or the empty list.
aspect_between(pos1, planet2, longitude2) ==
  LET a == pair_aspect(pos1.longitude, longitude2)
  IN  IF a.recorded
      THEN << [planet1 |-> pos1.name, planet2 |-> planet2, type |-> a.type,
               angle |-> a.angle, color |-> a.color] >>
      ELSE << >>

\* for pos2 in planet_positions[i+1:], from index j on.
RECURSIVE planet_loop(_, _, _)
planet_loop(planet_positions, i, j) ==
  IF j > Len(planet_positions) THEN << >>
  ELSE aspect_between(planet_positions[i], planet_positions[j].name,
                      planet_positions[j].longitude)
       \o planet_loop(planet_positions, i, j + 1)

\* for i, pos1 in enumerate(planet_positions), from index i on: the
\* aspects with the later planets, then the one with the ASC.
RECURSIVE distinct_pass(_, _, _)
distinct_pass(planet_positions, asc_position, i) ==
  IF i > Len(planet_positions) THEN << >>
  ELSE planet_loop(planet_positions, i, i + 1)
       \o (IF Len(asc_position) > 0
           THEN aspect_between(planet_positions[i], "ASC",
                               asc_position[1].longitude)
           ELSE << >>)
       \o distinct_pass(planet_positions, asc_position, i + 1)

\* instance.get("chart_type", default)
chart_type_of(instance, default) ==
  IF "chart_type" \in DOMAIN instance THEN instance.chart_type ELSE default

\* The record appended for two instances of one planet.
same_planet_aspect(instance1, instance2) ==
  LET a == aspect_between(instance1, instance2.name, instance2.longitude)
  IN  IF Len(a) = 0 THEN << >>
      ELSE << a[1] @@ [isSamePlanet |-> TRUE,
                       instance1_info |-> chart_type_of(instance1, "natal"),
                       instance2_info |->
                         chart_type_of(instance2, "transit")] >>

RECURSIVE instance_loop(_, _, _)
instance_loop(planet_instances, i, j) ==
  IF i > Len(planet_instances) THEN << >>
  ELSE IF j > Len(planet_instances)
  THEN instance_loop(planet_instances, i + 1, i + 2)
  ELSE same_planet_aspect(planet_instances[i], planet_instances[j])
       \o instance_loop(planet_instances, i, j + 1)

\* The names that occur more than once among planet_positions.
duplicate_planets(planet_positions) ==
  { planet_positions[i].name : i \in
      { k \in 1..Len(planet_positions) :
          \E l \in 1..Len(planet_positions) :
            l # k /\ planet_positions[l].name = planet_positions[k].name } }

\* for planet_name in duplicate_planets, in the order the set yields them.
RECURSIVE same_planet_pass(_, _, _)
same_planet_pass(planet_positions, order, k) ==
  IF k > Len(order) THEN << >>
  ELSE LET is_instance(p) == p.name = order[k]
       IN  instance_loop(SelectSeq(planet_positions, is_instance), 1, 2)
           \o same_planet_pass(planet_positions, order, k + 1)

\* calculate_positions_aspects; order is the order in which the set
\* duplicate_planets is iterated.
calculate_positions_aspects(positions, order) ==
  LET is_asc(p) == p.name = "ASC"
      ascs == SelectSeq(positions, is_asc)
      asc_position == IF Len(ascs) > 0 THEN <<ascs[1]>> ELSE << >>
      planet_positions == SelectSeq(positions, is_traditional)
  IN  distinct_pass(planet_positions, asc_position, 1)
      \o same_planet_pass(planet_positions, order, 1)

\* ----------------------- specification: calculate_positions_aspects
\* The names of a chart in the order the resolver appends them.
ChartNames ==
  bodies \o <<"ASC", "MC", "DSC", "IC", "PARTE_FORTUNA", "PARTE_ESPIRITU">>

\* The positions of the given names, the first at base and each next one
\* step further round the circle.
Chart(names, base, step) ==
  [i \in 1..Len(names) |->
     [name |-> names[i], longitude |-> (base + (i - 1) * step) % Full]]

\* The same list with the provenance label on every position.
Labelled(positions, label) ==
  [i \in 1..Len(positions) |-> positions[i] @@ [chart_type |-> label]]

AspectBases == { 0, Deg(123) + 7, Deg(350) }

\* Steps that give conjunctions only, the major aspects, and mixtures of
\* separations with and without a tier.
AspectSteps ==
  { 0, Deg(30), Deg(9), Deg(45), Deg(3) + Scale \div 2, Deg(7), Deg(100) }

\* A chart with and without angles, a short list out of order, a natal
\* chart followed by transits (bare and labelled, in both orders), three
\* instances of one body, and duplicates of names outside the set.
AspectLists ==
  UNION { { Chart(ChartNames, b, s),
            Chart(bodies, b, s),
            Chart(<<"LUNA", "ASC", "SOL", "URANO", "MC">>, b, s),
            Chart(ChartNames, b, s)
              \o Chart(<<"SOL", "LUNA", "PLUTÓN">>, b + Deg(60), s),
            Labelled(Chart(<<"SOL", "LUNA", "ASC">>, b, s), "natal")
              \o Labelled(Chart(<<"LUNA", "SOL">>, b + Deg(90), s + Deg(3)),
                          "transit"),
            Labelled(Chart(<<"MARTE", "SOL">>, b, s), "transit")
              \o Labelled(Chart(<<"SOL", "MARTE">>, b + Deg(12), s), "natal"),
            Chart(<<"SOL", "MARTE", "SOL", "ASC", "SOL">>, b, s),
            Chart(<<"URANO", "URANO", "ASC", "ASC", "SOL">>, b, s) } :
          b \in AspectBases, s \in AspectSteps }

\* The orders in which a set can be iterated.
Orders(S) ==
  { o \in [1..Cardinality(S) -> S] :
      \A a, b \in 1..Cardinality(S) : a # b => o[a] # o[b] }

InitAspects ==
  /\ pc = "call"
  /\ args \in { [fn |-> "calculate_positions_aspects", positions |-> ps] :
                  ps \in AspectLists }
  /\ env = NoEnv
  /\ ret = NoRet

Call_calculate_positions_aspects ==
  /\ pc = "call"
  /\ args.fn = "calculate_positions_aspects"
  /\ \E order \in Orders(duplicate_planets(SelectSeq(args.positions,
                                                     is_traditional))) :
       ret' = [kind |-> "aspects",
               aspects |-> calculate_positions_aspects(args.positions,
                                                       order)]
  /\ pc' = "done"
  /\ UNCHANGED <<args, env>>

NextAspects == Call_calculate_positions_aspects

SpecAspects == InitAspects /\ [][NextAspects]_vars

\* The call of calculate_positions_aspects has returned.
AspectsReturned == pc = "done" /\ args.fn = "calculate_positions_aspects"

Traditional ==
  {"SOL", "LUNA", "MERCURIO", "VENUS", "MARTE", "JÚPITER", "SATURNO"}

\* The separation of two longitudes has a tier.
Classified(lon1, lon2) ==
  determine_aspect_type(calculate_angle(lon1, lon2)) # "None"

NoDuplicateNames(positions) ==
  \A i, j \in 1..Len(positions) :
    i # j => positions[i].name # positions[j].name

\* The indices of the aspects recorded between the names a and b, in
\* either order.
AspectsOfPair(aspects, a, b) ==
  { k \in 1..Len(aspects) :
      \/ (aspects[k].planet1 = a /\ aspects[k].planet2 = b)
      \/ (aspects[k].planet1 = b /\ aspects[k].planet2 = a) }

\* C19: every recorded aspect has planet1 among the seven traditional
\* bodies and planet2 among them or ASC, so the outer bodies, MC, DSC, IC
\* and the Parts never appear; and in a list without duplicate names every
\* pair of two of the seven, or of one of them and ASC, has exactly one
\* record when its separation has a tier and none otherwise.
C19_TraditionalPairsOnce ==
  AspectsReturned =>
    LET ps == args.positions
        A  == ret.aspects
    IN  /\ \A k \in 1..Len(A) :
             /\ A[k].planet1 \in Traditional
             /\ A[k].planet2 \in Traditional \cup {"ASC"}
        /\ NoDuplicateNames(ps) =>
             \A i, j \in 1..Len(ps) :
               (/\ i < j
                /\ ps[i].name \in Traditional \cup {"ASC"}
                /\ ps[j].name \in Traditional \cup {"ASC"}) =>
                 Cardinality(AspectsOfPair(A, ps[i].name, ps[j].name))
                   = (IF Classified(ps[i].longitude, ps[j].longitude)
                      THEN 1 ELSE 0)

\* A whole chart without duplicates, an outer body at a separation from
\* the Sun that has a tier, an aspect with the ASC recorded and a pair of
\* traditional bodies left without aspect.
C19_Witness ==
  /\ AspectsReturned
  /\ NoDuplicateNames(args.positions)
  /\ Len(args.positions) = Len(ChartNames)
  /\ \E i, j \in 1..Len(args.positions) :
       /\ args.positions[i].name = "SOL"
       /\ args.positions[j].name = "URANO"
       /\ Classified(args.positions[i].longitude,
                     args.positions[j].longitude)
  /\ \E k \in 1..Len(ret.aspects) : ret.aspects[k].planet2 = "ASC"
  /\ \E i, j \in 1..Len(args.positions) :
       /\ args.positions[i].name \in Traditional
       /\ args.positions[j].name \in Traditional
       /\ ~Classified(args.positions[i].longitude,
                      args.positions[j].longitude)

\* The positions of the traditional bodies, in list order.
TraditionalPositions ==
  LET in_set(p) == p.name \in Traditional
  IN  SelectSeq(args.positions, in_set)

\* The pairs i < j of traditional positions named a and b, in that order,
\* whose separation has a tier.
ClassifiedPairs(P, a, b) ==
  { pr \in (1..Len(P)) \X (1..Len(P)) :
      /\ pr[1] < pr[2]
      /\ P[pr[1]].name = a
      /\ P[pr[2]].name = b
      /\ Classified(P[pr[1]].longitude, P[pr[2]].longitude) }

\* The recorded aspects from a to b, in that order.
Recorded(A, a, b) ==
  { k \in 1..Len(A) : A[k].planet1 = a /\ A[k].planet2 = b }

Tagged(aspect) ==
  /\ "isSamePlanet" \in DOMAIN aspect
  /\ aspect.isSamePlanet
  /\ "instance1_info" \in DOMAIN aspect
  /\ "instance2_info" \in DOMAIN aspect

\* The aspects between distinct names are those of the distinct-body
\* pass: one untagged record for every pair of traditional positions of
\* different names, and for every traditional position and the ASC, whose
\* separation has a tier.
DistinctNamesAsStandardPass ==
  LET P == TraditionalPositions
      A == ret.aspects
      ascs == { i \in 1..Len(args.positions) :
                  args.positions[i].name = "ASC" }
      asc_first == CHOOSE i \in ascs : \A j \in ascs : i <= j
  IN  /\ \A k \in 1..Len(A) :
           A[k].planet1 # A[k].planet2 => "isSamePlanet" \notin DOMAIN A[k]
      /\ \A a, b \in Traditional :
           a # b => Cardinality(Recorded(A, a, b))
                      = Cardinality(ClassifiedPairs(P, a, b))
      /\ \A a \in Traditional :
           Cardinality(Recorded(A, a, "ASC"))
             = (IF ascs = {} THEN 0
                ELSE Cardinality(
                       { i \in 1..Len(P) :
                           /\ P[i].name = a
                           /\ Classified(P[i].longitude,
                                         args.positions[asc_first]
                                           .longitude) }))

\* C20: every pair of same-named instances of a traditional body whose
\* separation has a tier is recorded exactly once, tagged isSamePlanet
\* with the two provenance labels; every recorded aspect with planet1 =
\* planet2 carries the tag; the aspects between distinct names are those
\* of the distinct-body pass.
C20_SamePlanetOnce ==
  AspectsReturned =>
    LET P == TraditionalPositions
        A == ret.aspects
    IN  /\ \A n \in Traditional :
             /\ Cardinality(Recorded(A, n, n))
                  = Cardinality(ClassifiedPairs(P, n, n))
             /\ \A k \in Recorded(A, n, n) : Tagged(A[k])
        /\ DistinctNamesAsStandardPass

\* What the two passes record together: every such pair of same-named
\* instances twice, once untagged by the distinct-body pass and once
\* tagged by the same-body pass; the aspects between distinct names are
\* those of the distinct-body pass.
C20_SamePlanetTwice ==
  AspectsReturned =>
    LET P == TraditionalPositions
        A == ret.aspects
    IN  /\ \A n \in Traditional :
             /\ Cardinality({ k \in Recorded(A, n, n) : Tagged(A[k]) })
                  = Cardinality(ClassifiedPairs(P, n, n))
             /\ Cardinality({ k \in Recorded(A, n, n) :
                                "isSamePlanet" \notin DOMAIN A[k] })
                  = Cardinality(ClassifiedPairs(P, n, n))
        /\ DistinctNamesAsStandardPass

\* ------------------------ specification: calcular_dignidad_planetaria
\* The names get_sign can return.
SignNames == { signs[i][1] : i \in 1..Len(signs) }

\* The ten bodies, and two names the table does not have.
DignityPlanets == { bodies[i] : i \in 1..Len(bodies) } \cup {"ASC", "QUIRÓN"}

\* The signs of the table, and two names no set of the table has.
DignitySigns == SignNames \cup {"CETUS", ""}

InitDignity ==
  /\ pc = "call"
  /\ args \in { [fn |-> "calcular_dignidad_planetaria", planeta |-> p,
                 signo |-> sg] : p \in DignityPlanets, sg \in DignitySigns }
  /\ env = NoEnv
  /\ ret = NoRet

Call_calcular_dignidad_planetaria ==
  /\ pc = "call"
  /\ args.fn = "calcular_dignidad_planetaria"
  /\ ret' = [kind |-> "dignidad",
             value |-> calcular_dignidad_planetaria(args.planeta, args.signo)]
  /\ pc' = "done"
  /\ UNCHANGED <<args, env>>

NextDignity == Call_calcular_dignidad_planetaria

SpecDignity == InitDignity /\ [][NextDignity]_vars

DignityReturned == pc = "done" /\ args.fn = "calcular_dignidad_planetaria"

DignityKinds == {"domicilio", "exaltacion", "caida", "exilio"}

\* The sign-set of a body for a dignity.
SignSet(planeta, kind) ==
  CASE kind = "domicilio"  -> DIGNIDADES[planeta].domicilio
    [] kind = "exaltacion" -> DIGNIDADES[planeta].exaltacion
    [] kind = "caida"      -> DIGNIDADES[planeta].caida
    [] kind = "exilio"     -> DIGNIDADES[planeta].exilio

\* C21: the four sign-sets of each of the ten bodies are pairwise
\* disjoint, and the lookup returns the set that contains the sign,
\* whichever order the sets are tested in; for a body not in the table or
\* a sign in none of the body's sets it returns peregrino.
C21_DignityOfTheOneSet ==
  DignityReturned =>
    IF args.planeta \in DOMAIN DIGNIDADES
    THEN /\ \A k1, k2 \in DignityKinds :
              k1 # k2 =>
                SignSet(args.planeta, k1) \cap SignSet(args.planeta, k2) = {}
         /\ \A k \in DignityKinds :
              args.signo \in SignSet(args.planeta, k) => ret.value = k
         /\ (\A k \in DignityKinds : args.signo \notin SignSet(args.planeta, k))
              => ret.value = "peregrino"
    ELSE ret.value = "peregrino"

\* Saturn in a sign of the last set the lookup tests.
C21_Witness ==
  /\ DignityReturned
  /\ args.planeta = "SATURNO"
  /\ args.signo = "VIRGO"
  /\ ret.value = "exilio"

\* ------------------------------------------------ the /calculate route
\* The dictionary keys of a ChartResult.
response_keys ==
  { "positions", "coordinates", "city", "timezone", "local_time",
    "utc_time", "aspects", "interpretations", "isDry", "zodiacSystem",
    "ayanamsa" }

\* dict.get(key, default)
dict_get(d, key, default) == IF key \in DOMAIN d THEN d[key] ELSE default

\* The date and the time the empty string spells: strptime rejects them.
BlankDate == [year |-> 0, month |-> 0, day |-> 0]

BlankTime == [hour |-> 0 - 1, minute |-> 0 - 1]

\* `not data or not data.get('city')`: no body, an empty body, no city or
\* an empty city.
city_missing(data) == DOMAIN data = {} \/ dict_get(data, "city", "") = ""

\* The keys whose subscript data[...] raises KeyError while the arguments
\* of obtener_datos_ciudad are evaluated, in the order they are evaluated.
key_errors(data) ==
  SelectSeq(<<"city", "date", "time">>, LAMBDA k : k \notin DOMAIN data)

\* The inner handler with the values computed so far kept in the body.
inner_except_basic_values(frame, e) ==
  [status |-> 500,
   body |-> [error |-> <<"Error en cálculos astrológicos", e>>]
              @@ [k \in DOMAIN frame \cap {"positions", "aspects"} |->
                    frame[k]]]

\* except Exception as timezone_error
inner_except(frame, e) ==
  [status |-> 500,
   body |-> [error |-> <<"Error en cálculos astrológicos", e>>]]

\* except Exception as e
outer_except(e) == [status |-> 500, body |-> [error |-> <<e>>]]

\* The dictionary jsonify receives at the end of the inner try block.
build_response(data, frame) ==
  LET use_sidereal == frame.use_sidereal
      utc == frame.utc_datetime
      days == ymd2ord(utc.year, utc.month, utc.day) - ymd2ord(2000, 1, 1)
      ayanamsa == IF use_sidereal THEN calculate_fagan_allen_ayanamsa(days)
                  ELSE 0
  IN  [positions |-> frame.positions,
       coordinates |-> [latitude |-> frame.city_data.lat,
                        longitude |-> frame.city_data.lon],
       city |-> frame.city_data.nombre,
       timezone |-> frame.timezone_info,
       local_time |-> <<data.date, data.time>>,
       utc_time |-> utc,
       aspects |-> frame.aspects,
       interpretations |-> frame.interpretations,
       isDry |-> frame.isDry,
       zodiacSystem |-> IF use_sidereal THEN "sidereal" ELSE "tropical",
       ayanamsa |-> IF use_sidereal THEN <<ayanamsa>> ELSE <<"None">>]

\* The names that get no house number.
angle_names == {"ASC", "MC", "DSC", "IC", "PARTE_FORTUNA", "PARTE_ESPIRITU"}

\* The loop that adds the house number to each planet of positions.
add_houses(positions) ==
  LET asc_pos == first_named(positions, "ASC")
  IN  IF asc_pos = 0 THEN positions
      ELSE [i \in 1..Len(positions) |->
              IF positions[i].name \in angle_names THEN positions[i]
              ELSE positions[i]
                     @@ [house |-> get_house_number(positions[i].longitude,
                                                    positions[asc_pos].longitude)]]

\* isDry: None unless the list has both the Ascendant and the Sun.
route_is_dry(positions) ==
  LET asc_pos == first_named(positions, "ASC")
      sol_pos == first_named(positions, "SOL")
  IN  IF asc_pos > 0 /\ sol_pos > 0
      THEN <<is_dry_birth(positions[sol_pos].longitude,
                          positions[asc_pos].longitude)>>
      ELSE <<"None">>

\* The seven planets the interpreter is asked about.
interpreted_planets ==
  {"SOL", "LUNA", "MERCURIO", "VENUS", "MARTE", "JÚPITER", "SATURNO"}

\* The interpretations dictionary: empty lists without an interpreter,
\* else an entry for each text the interpreter finds (it finds all, here).
interpretations_of(positions, aspects, interpreter) ==
  LET is_planet(p) == p.name \in interpreted_planets
      planets == SelectSeq(positions, is_planet)
      asc_pos == first_named(positions, "ASC")
      relevant(a) ==
        /\ a.type \in { <<"CONJUNCTION">>, <<"SEXTILE">>, <<"TRINE">>,
                        <<"OPPOSITION">>, <<"SQUARE">>, <<"QUINCUNX">> }
        /\ a.planet1 \in interpreted_planets
        /\ a.planet2 \in interpreted_planets
      told == SelectSeq(aspects, relevant)
  IN  IF ~interpreter
      THEN [planets_in_signs |-> << >>, planets_in_houses |-> << >>,
            aspects |-> << >>, house_rulers |-> << >>]
      ELSE [planets_in_signs |->
              [i \in 1..Len(planets) |->
                 [planet |-> planets[i].name, sign |-> planets[i].sign]],
            planets_in_houses |->
              IF asc_pos = 0 THEN << >>
              ELSE [i \in 1..Len(planets) |->
                      [planet |-> planets[i].name,
                       house |-> get_house_number(planets[i].longitude,
                                                  positions[asc_pos].longitude)]],
            aspects |->
              [i \in 1..Len(told) |->
                 [planets |-> <<told[i].planet1, told[i].planet2>>,
                  type |-> IF told[i].type \in {<<"SQUARE">>, <<"QUINCUNX">>}
                           THEN "Inarmónico Relevante"
                           ELSE "Armónico Relevante"]],
            house_rulers |-> << >>]

\* --------------------------------------- specification: POST /calculate
\* The steps of the route at which the environment may raise an exception
\* (a malformed body, a failing library call, a value jsonify rejects).
RouteFaults ==
  { "none", "get_json", "obtener_zona_horaria", "convertir_a_utc",
    "calculate_positions_with_utc", "calculate_positions_aspects",
    "get_house_number", "interpreter", "jsonify" }

\* Request bodies: each of city, date, time and useSidereal present or
\* not, city, date and time empty or not.
RouteBodies ==
  { [k \in K |-> full[k]] :
      K \in SUBSET {"city", "date", "time", "useSidereal"},
      full \in [city : {"", "Madrid"},
                date : {BlankDate, [year |-> 2000, month |-> 7, day |-> 15]},
                time : {BlankTime, [hour |-> 12, minute |-> 30]},
                useSidereal : {TRUE}] }

\* What obtener_datos_ciudad returns: a list of options or an error
\* dictionary.
RouteGeocoded ==
  { [type |-> "list",
     value |-> << [nombre |-> "Madrid, Spain", lat |-> Hundredths(4040),
                   lon |-> Hundredths(0 - 370), pais |-> "Spain"],
                  [nombre |-> "Madrid, United States",
                   lat |-> Hundredths(4040), lon |-> Hundredths(0 - 9500),
                   pais |-> "United States"] >>],
    [type |-> "list",
     value |-> << [nombre |-> "Paris, France", lat |-> Hundredths(4040),
                   lon |-> Hundredths(235), pais |-> "France"] >>],
    [type |-> "dict", value |-> [error |-> "Ciudad no encontrada"]],
    [type |-> "dict", value |-> [error |-> "Timeout en la consulta"]] }

InitRoute ==
  /\ pc = "request"
  /\ args \in { [fn |-> "calculate", method |-> m, data |-> d] :
                  m \in {"POST", "OPTIONS"}, d \in RouteBodies }
  /\ env \in { [kind |-> "route", fault |-> f, geocoded |-> g,
                time_zone_df |-> t, sim_ok |-> so, eph_ok |-> FALSE,
                asc_mc |-> <<Deg(10), Deg(270)>>, interpreter |-> i,
                frame |-> << >>, ran |-> << >>] :
                 f \in RouteFaults, g \in RouteGeocoded, t \in ZoneTables,
                 so \in BOOLEAN, i \in BOOLEAN }
  /\ ret = NoRet

\* return jsonify(body), status
Respond(r) ==
  /\ ret' = [kind |-> "response", status |-> r.status, body |-> r.body]
  /\ pc' = "done"

\* The step ran and left its values in the locals of the route.
Ran(step, values, next) ==
  /\ env' = [env EXCEPT !.frame = values @@ @, !.ran = Append(@, step)]
  /\ pc' = next
  /\ ret' = ret

\* The step ran and raised inside the inner try block.
Raised(step, e) ==
  /\ env' = [env EXCEPT !.ran = Append(@, step)]
  /\ Respond(inner_except(env.frame, e))

\* The CORS preflight.
Calculate_preflight ==
  /\ pc = "request"
  /\ args.fn = "calculate"
  /\ args.method = "OPTIONS"
  /\ Respond([status |-> 200, body |-> [status |-> "ok"]])
  /\ UNCHANGED <<args, env>>

\* request.get_json(), the test of the city, and the evaluation of the
\* arguments of obtener_datos_ciudad.
Calculate_validate ==
  /\ pc = "request"
  /\ args.fn = "calculate"
  /\ args.method = "POST"
  /\ IF env.fault = "get_json"
     THEN Respond(outer_except("BadRequest")) /\ env' = env
     ELSE IF city_missing(args.data)
     THEN /\ Respond([status |-> 400,
                      body |-> [error |-> "Ciudad no especificada"]])
          /\ env' = env
     ELSE IF Len(key_errors(args.data)) > 0
     THEN /\ Respond(outer_except(<<"KeyError", key_errors(args.data)[1]>>))
          /\ env' = env
     ELSE Ran("get_json", << >>, "geocode")
  /\ UNCHANGED args

\* city_data = obtener_datos_ciudad(...) and the tests of its result.
Calculate_geocode ==
  /\ pc = "geocode"
  /\ LET city_data == env.geocoded
     IN  IF city_data.type = "dict" /\ "error" \in DOMAIN city_data.value
         THEN /\ Respond([status |-> 400, body |-> city_data.value])
              /\ env' = [env EXCEPT !.ran = Append(@, "obtener_datos_ciudad")]
         ELSE IF city_data.type = "list" /\ Len(city_data.value) > 0
         THEN Ran("obtener_datos_ciudad",
                  [city_data |-> city_data.value[1],
                   use_sidereal |-> dict_get(args.data, "useSidereal", FALSE)],
                  "timezone")
         ELSE /\ Respond([status |-> 400,
                          body |-> [error |-> "No se pudo obtener información de la ciudad"]])
              /\ env' = [env EXCEPT !.ran = Append(@, "obtener_datos_ciudad")]
  /\ UNCHANGED args

\* timezone_info = obtener_zona_horaria(city_data, data['date'])
Calculate_timezone ==
  /\ pc = "timezone"
  /\ IF env.fault = "obtener_zona_horaria"
     THEN Raised("obtener_zona_horaria", "Exception")
     ELSE Ran("obtener_zona_horaria",
              [timezone_info |->
                 obtener_zona_horaria(env.frame.city_data, args.data.date,
                                      env.time_zone_df).value],
              "utc")
  /\ UNCHANGED args

\* utc_datetime = convertir_a_utc(data['date'], data['time'], timezone_info)
Calculate_utc ==
  /\ pc = "utc"
  /\ LET r == convertir_a_utc(args.data.date, args.data.time,
                              env.frame.timezone_info)
     IN  IF env.fault = "convertir_a_utc"
         THEN Raised("convertir_a_utc", "Exception")
         ELSE IF r.kind = "raised"
         THEN Raised("convertir_a_utc", r.error)
         ELSE Ran("convertir_a_utc", [utc_datetime |-> r.value], "positions")
  /\ UNCHANGED args

\* positions = calculate_positions_with_utc(utc_datetime, lat, lon,
\* use_sidereal)
Calculate_positions ==
  /\ pc = "positions"
  /\ LET utc == env.frame.utc_datetime
         a == [utc_datetime |-> ymd2ord(utc.year, utc.month, utc.day)
                                  - ymd2ord(2000, 1, 1),
               coords |-> TRUE, use_sidereal |-> env.frame.use_sidereal]
     IN  IF env.fault = "calculate_positions_with_utc"
         THEN Raised("calculate_positions_with_utc", "Exception")
         ELSE Ran("calculate_positions_with_utc",
                  [positions |-> calculate_positions_with_utc(a, env)],
                  "aspects")
  /\ UNCHANGED args

\* aspects = calculate_positions_aspects(positions)
Calculate_aspects ==
  /\ pc = "aspects"
  /\ IF env.fault = "calculate_positions_aspects"
     THEN Raised("calculate_positions_aspects", "Exception")
     ELSE Ran("calculate_positions_aspects",
              [aspects |-> calculate_positions_aspects(env.frame.positions,
                                                       << >>)],
              "houses")
  /\ UNCHANGED args

\* The house number of each planet, and isDry.
Calculate_houses ==
  /\ pc = "houses"
  /\ IF env.fault = "get_house_number"
     THEN Raised("get_house_number", "Exception")
     ELSE Ran("get_house_number",
              [positions |-> add_houses(env.frame.positions),
               isDry |-> route_is_dry(env.frame.positions)],
              "interpretations")
  /\ UNCHANGED args

\* The interpretations, when the interpreter is loaded.
Calculate_interpretations ==
  /\ pc = "interpretations"
  /\ IF env.interpreter /\ env.fault = "interpreter"
     THEN Raised("interpreter", "Exception")
     ELSE Ran("interpreter",
              [interpretations |->
                 interpretations_of(env.frame.positions, env.frame.aspects,
                                    env.interpreter)],
              "respond")
  /\ UNCHANGED args

\* The ayanamsa, the response dictionary and jsonify.
Calculate_respond ==
  /\ pc = "respond"
  /\ IF env.fault = "jsonify"
     THEN Raised("jsonify", "TypeError")
     ELSE /\ Respond([status |-> 200,
                      body |-> build_response(args.data, env.frame)])
          /\ env' = [env EXCEPT !.ran = Append(@, "jsonify")]
  /\ UNCHANGED args

NextRoute ==
  \/ Calculate_preflight
  \/ Calculate_validate
  \/ Calculate_geocode
  \/ Calculate_timezone
  \/ Calculate_utc
  \/ Calculate_positions
  \/ Calculate_aspects
  \/ Calculate_houses
  \/ Calculate_interpretations
  \/ Calculate_respond

SpecRoute == InitRoute /\ [][NextRoute]_vars

\* The POST request has been answered.
RouteAnswered == pc = "done" /\ args.fn = "calculate" /\ args.method = "POST"

\* The body is a complete ChartResult.
IsChart(body) == DOMAIN body = response_keys

\* The body is an error object: one message and nothing else.
IsErrorObject(body) == DOMAIN body = {"error"}

\* The step at which the environment raises ran after the geocoding.
RaisedAfterGeocoding ==
  /\ Len(env.ran) > 2
  /\ env.fault = env.ran[Len(env.ran)]
  /\ env.ran[2] = "obtener_datos_ciudad"

\* C22: a POST /calculate request is answered once, and the answer is
\* either a complete ChartResult (all eleven fields) or an error object
\* holding one error message and no chart field; when a step after the
\* geocoding raises, the answer is the error object.
C22_AllOrNothing ==
  /\ args.fn = "calculate" /\ pc # "done" => ret = NoRet
  /\ RouteAnswered =>
       /\ ret.kind = "response"
       /\ IsChart(ret.body) \/ IsErrorObject(ret.body)
       /\ ~(IsChart(ret.body) /\ IsErrorObject(ret.body))
       /\ IsChart(ret.body) => ret.status = 200 /\ Len(env.ran) = 9
       /\ RaisedAfterGeocoding => IsErrorObject(ret.body)

\* An exception at the interpretations, after positions, aspects and
\* houses were computed, answered with the error object.
C22_Witness ==
  /\ RouteAnswered
  /\ env.fault = "interpreter"
  /\ RaisedAfterGeocoding
  /\ "positions" \in DOMAIN env.frame
  /\ IsErrorObject(ret.body)

\* The request lacks the value: the key is absent or its value is empty.
LacksCity == dict_get(args.data, "city", "") = ""

LacksDate == dict_get(args.data, "date", BlankDate) = BlankDate

LacksTime == dict_get(args.data, "time", BlankTime) = BlankTime

\* C23: a POST /calculate request (with a readable body) that lacks the
\* city, the date or the time is answered with the input error (status
\* 400, an error object) and neither the geocoding lookup nor any later
\* step has run.
C23_InputErrorsRejectedFirst ==
  RouteAnswered /\ env.fault = "none"
    /\ (LacksCity \/ LacksDate \/ LacksTime) =>
      /\ ret.status = 400
      /\ IsErrorObject(ret.body)
      /\ \A i \in 1..Len(env.ran) : env.ran[i] = "get_json"

\* What holds of the code: a request without a city is answered 400 before
\* any step runs, and a request without the key date or time is answered
\* (500) before the geocoding lookup.
C23_CityCheckedOnly ==
  RouteAnswered /\ env.fault = "none" =>
    /\ LacksCity => ret.status = 400 /\ env.ran = << >>
    /\ ~LacksCity /\ Len(key_errors(args.data)) > 0 =>
         ret.status = 500 /\ IsErrorObject(ret.body) /\ env.ran = << >>

\* ------------------------------------- obtener_datos_ciudad, memoized
\* @lru_cache(maxsize=100)
maxsize == 100

\* Distinct cities asked for beyond maxsize.
MaxExtra == 2

\* Calls that repeat an earlier key.
MaxRepeats == 2

\* The index of the key in the cache (oldest entry first), 0 when absent.
cache_index(cache, key) ==
  LET hits == { i \in 1..Len(cache) : cache[i].key = key }
  IN  IF hits = {} THEN 0 ELSE CHOOSE i \in hits : TRUE

\* A hit moves the entry to the most recently used end.
cache_touch(cache, i) ==
  SubSeq(cache, 1, i - 1) \o SubSeq(cache, i + 1, Len(cache)) \o <<cache[i]>>

\* A cache that stores the new entry and evicts nothing.
cache_store_unbounded(cache, entry) == Append(cache, entry)

\* A miss stores the new entry, in place of the oldest one when the cache
\* is full.
cache_store(cache, entry) ==
  IF Len(cache) >= maxsize THEN Append(Tail(cache), entry)
  ELSE Append(cache, entry)

\* The body of obtener_datos_ciudad: the network request number n for the
\* city, answered with options or failing.
geocode_request(ciudad, n, failing) ==
  IF n \in failing
  THEN [type |-> "dict", value |-> [error |-> "Timeout en la consulta"]]
  ELSE [type |-> "list",
        value |-> << [nombre |-> ciudad, request |-> n] >>]

\* One call through the lru_cache wrapper: the result and the cache and
\* the counters after it.
obtener_datos_ciudad(key, e) ==
  LET i == cache_index(e.cache, key)
  IN  IF i > 0
      THEN [result |-> e.cache[i].result,
            cache |-> cache_touch(e.cache, i),
            hits |-> e.hits + 1, misses |-> e.misses]
      ELSE LET result == geocode_request(key[1], e.misses + 1, e.failing)
           IN  [result |-> result,
                cache |-> cache_store(e.cache,
                                      [key |-> key, result |-> result]),
                hits |-> e.hits, misses |-> e.misses + 1]

\* ------------------------------ specification: obtener_datos_ciudad
\* The key of the n-th city, on either of two dates.
CityKey(n, fecha) == <<n, fecha, "12:30">>

\* The network requests that fail: none, the first, the second, or the
\* first one after the cache filled up.
FailingRequests == { {}, {1}, {2}, {maxsize + 1} }

InitGeocoder ==
  /\ pc = "idle"
  /\ args = [fn |-> "obtener_datos_ciudad"]
  /\ env \in { [kind |-> "geocoder", cache |-> << >>, hits |-> 0,
                misses |-> 0, fresh |-> 1, failing |-> f] :
                 f \in FailingRequests }
  /\ ret = NoRet

\* The keys of the next call: a city never asked for, or (a bounded
\* number of times, while the cache is nearly empty or full) the oldest
\* or the newest key of the cache, the first city, or the first city on
\* another date.
CallKeys(e) ==
  (IF e.fresh <= maxsize + MaxExtra
   THEN { CityKey(e.fresh, "2000-07-15") } ELSE {})
  \cup
  (IF /\ Len(e.cache) > 0
      /\ e.hits + e.misses - (e.fresh - 1) < MaxRepeats
      /\ Len(e.cache) <= MaxExtra \/ Len(e.cache) >= maxsize
   THEN { e.cache[1].key, e.cache[Len(e.cache)].key,
          CityKey(1, "2000-07-15"), CityKey(1, "2000-07-16") }
   ELSE {})

Call_obtener_datos_ciudad ==
  /\ pc = "idle"
  /\ args.fn = "obtener_datos_ciudad"
  /\ \E key \in CallKeys(env) :
       LET r == obtener_datos_ciudad(key, env)
       IN  /\ args' = [fn |-> "obtener_datos_ciudad", key |-> key]
           /\ ret' = [kind |-> "city_data", value |-> r.result]
           /\ env' = [env EXCEPT !.cache = r.cache, !.hits = r.hits,
                                 !.misses = r.misses,
                                 !.fresh = IF key = CityKey(@, "2000-07-15")
                                           THEN @ + 1 ELSE @]
  /\ pc' = "idle"

NextGeocoder == Call_obtener_datos_ciudad

SpecGeocoder == InitGeocoder /\ [][NextGeocoder]_vars

\* C24: in every call of obtener_datos_ciudad whose key is in the cache
\* when the call is made, no network request is performed and the result
\* is the one stored for the key; and the cache never holds more than 100
\* entries, nor one key twice.
C24_CachedCallSkipsNetwork ==
  [][ LET i == cache_index(env.cache, args'.key)
      IN  /\ i > 0 => /\ env'.misses = env.misses
                      /\ ret'.value = env.cache[i].result
          /\ Len(env'.cache) <= 100
          /\ \A a, b \in 1..Len(env'.cache) :
               env'.cache[a].key = env'.cache[b].key => a = b ]_vars

\* A hit on a full cache after the first entries were evicted.
C24_Witness ==
  /\ args.fn = "obtener_datos_ciudad"
  /\ env.hits > 0
  /\ Len(env.cache) = 100
  /\ env.misses > 100
  /\ ret.kind = "city_data"
  /\ \E i \in 1..Len(env.cache) :
       /\ env.cache[i].key = args.key
       /\ ret.value = env.cache[i].result
       /\ ret.value.type = "list"
       /\ ret.value.value[1].request < env.misses

\* The result is an error dictionary.
IsErrorResult(r) == r.type = "dict" /\ "error" \in DOMAIN r.value

\* C30: a call of obtener_datos_ciudad that ends in an error result
\* leaves no entry holding that result in the cache, and a call whose key
\* got an error result before performs a network request.
C30_ErrorsNotMemoized ==
  [][ /\ \A i \in 1..Len(env'.cache) : ~IsErrorResult(env'.cache[i].result)
      /\ LET i == cache_index(env.cache, args'.key)
         IN  i > 0 /\ IsErrorResult(env.cache[i].result) =>
               env'.misses = env.misses + 1 ]_vars

\* What the code does: the error result of a failed request is returned
\* again, without a request, to a later call with the same key.
C30_ErrorReturnedFromCache ==
  /\ args.fn = "obtener_datos_ciudad"
  /\ env.hits > 0
  /\ IsErrorResult(ret.value)
  /\ env.misses \notin env.failing

\* ------------------------------------------------- claims on get_sign
\* C25: get_sign never returns from the statement after its loop: every
\* longitude is answered inside the loop, by the range test of an arc or,
\* between 0 and 30 degrees, by the wrap-around test of the ARIES arc.
C25_DefaultUnreachable ==
  pc = "done" /\ args.fn = "get_sign" =>
    /\ ret.site # "default"
    /\ PyMod(args.longitude, Full) < Deg(30) => ret.site = "wrap"

\* What the code does: the wrap-around test is never true, and exactly
\* the longitudes from 0 up to 30 degrees are answered by the default.
C25_SeamAnsweredByDefault ==
  pc = "done" /\ args.fn = "get_sign" =>
    /\ ret.site # "wrap"
    /\ ret.site = "default" <=> PyMod(args.longitude, Full) < Deg(30)
    /\ ret.site = "default" => ret.sign = "ARIES"

\* --------------------------------------- claims on the position lists
\* The record names its sign after its own longitude and, for one of the
\* ten bodies, its dignity after its own name and sign.
SelfConsistent(p) ==
  /\ p.sign = get_sign(p.longitude)
  /\ p.name \in { bodies[i] : i \in 1..Len(bodies) } =>
       /\ "dignidad" \in DOMAIN p
       /\ p.dignidad = calcular_dignidad_planetaria(p.name, p.sign)

\* C26: every position of every list calculate_positions_with_utc returns
\* (ephemeris path, simulated path, constant list) has
\* sign = get_sign(longitude) and, for the ten bodies,
\* dignidad = calcular_dignidad_planetaria(name, sign).
C26_PositionsSelfConsistent ==
  Resolved =>
    \A i \in 1..Len(ret.positions) : SelfConsistent(ret.positions[i])

\* What holds of the code: the computed lists are self-consistent, and in
\* the constant list every record but DSC is.
C26_ConsistentButLastResortDsc ==
  Resolved =>
    \A i \in 1..Len(ret.positions) :
      \/ SelfConsistent(ret.positions[i])
      \/ ret.path = "last_resort" /\ ret.positions[i].name = "DSC"

\* ------------------------------------------- claims on the aspect names
\* The entry of a centre angle in the angle-to-name table.
NameOfCentre(c) ==
  CASE c = 0 -> <<"CONJUNCTION">>
    [] c = 60 -> <<"SEXTILE">>
    [] c = 90 -> <<"SQUARE">>
    [] c = 120 -> <<"TRINE">>
    [] c = 180 -> <<"OPPOSITION">>
    [] OTHER -> <<generic_keys[c]>>

\* The call of pair_aspect is over and recorded an aspect.
AspectRecorded == pc = "done" /\ args.fn = "pair_aspect" /\ ret.recorded

\* C27: a recorded aspect is named after the centre its separation is
\* within 2 degrees of (150 QUINCUNX, 30 TREINTA, 72 QUINTILE, 6 SEIS, ...,
\* and 0, 60, 90, 120, 180 the five classical names), and never ANGLE_<n>.
C27_NamedAfterCentre ==
  AspectRecorded =>
    /\ \A tc \in CentresWithinOrb(ret.angle) : ret.type = NameOfCentre(tc[2])
    /\ ret.type[1] # "ANGLE"

\* What the code does: the five classical names cover the whole orb, the
\* other names only the separations that round to the centre itself, and
\* every other recorded aspect is named ANGLE_<n> after its rounded
\* separation.
C27_MinorNamesNeedExactDegree ==
  AspectRecorded =>
    \A tc \in CentresWithinOrb(ret.angle) :
      IF tc[2] \in {0, 60, 90, 120, 180} \/ PyRound(ret.angle) = tc[2]
      THEN ret.type = NameOfCentre(tc[2])
      ELSE ret.type = <<"ANGLE", PyRound(ret.angle)>>

\* ------------------------------------ preload_resources: time_zone.csv
\* A CSV field is the sequence of its characters.
Digits == {"0", "1", "2", "3", "4", "5", "6", "7", "8", "9"}

\* str.isdigit()
isdigit(cs) == Len(cs) > 0 /\ \A i \in 1..Len(cs) : cs[i] \in Digits

\* str.replace('.', '', 1)
replace_first_dot(cs) ==
  LET dots == { i \in 1..Len(cs) : cs[i] = "." }
  IN  IF dots = {} THEN cs
      ELSE LET d == CHOOSE i \in dots : \A j \in dots : i <= j
           IN  SubSeq(cs, 1, d - 1) \o SubSeq(cs, d + 1, Len(cs))

\* The value of one digit.
digit_value(c) ==
  CASE c = "0" -> 0 [] c = "1" -> 1 [] c = "2" -> 2 [] c = "3" -> 3
    [] c = "4" -> 4 [] c = "5" -> 5 [] c = "6" -> 6 [] c = "7" -> 7
    [] c = "8" -> 8 [] c = "9" -> 9

\* int() of a string of digits.
RECURSIVE int_of(_)
int_of(cs) ==
  IF Len(cs) = 0 THEN 0
  ELSE 10 * int_of(SubSeq(cs, 1, Len(cs) - 1)) + digit_value(cs[Len(cs)])

\* float() of digits with at most one dot, in whole seconds (the files
\* have no fractions of a second).
float_of(cs) ==
  LET dots == { i \in 1..Len(cs) : cs[i] = "." }
  IN  IF dots = {} THEN int_of(cs)
      ELSE int_of(SubSeq(cs, 1, (CHOOSE i \in dots : TRUE) - 1))

\* A loader that reads the sign of the offset as well.
load_row_signed(row) ==
  [timezone |-> row[1], country_code |-> row[2], abbreviation |-> row[3],
   timestamp |-> IF isdigit(row[4]) THEN int_of(row[4]) ELSE 0,
   utc_offset |-> IF Len(row[5]) > 0 /\ row[5][1] = "-"
                     /\ isdigit(replace_first_dot(Tail(row[5])))
                  THEN 0 - float_of(Tail(row[5]))
                  ELSE IF isdigit(replace_first_dot(row[5]))
                  THEN float_of(row[5]) ELSE 0,
   dst |-> IF isdigit(row[6]) THEN int_of(row[6]) ELSE 0]

\* The dictionary appended for one row of the file.
load_row(row) ==
  [timezone |-> row[1], country_code |-> row[2], abbreviation |-> row[3],
   timestamp |-> IF isdigit(row[4]) THEN int_of(row[4]) ELSE 0,
   utc_offset |-> IF isdigit(replace_first_dot(row[5]))
                  THEN float_of(row[5]) ELSE 0,
   dst |-> IF isdigit(row[6]) THEN int_of(row[6]) ELSE 0]

\* time_zone_df after the loop over the rows of the first file found, the
\* empty list when there is no file.
load_time_zone_df(file) ==
  IF file.exists
  THEN LET wide(row) == Len(row) >= 6
           rows == SelectSeq(file.rows, wide)
       IN  [i \in 1..Len(rows) |-> load_row(rows[i])]
  ELSE << >>

\* --------------------- specification: the table loaded, then looked up
\* The files preload_resources may find: the zones of both sides of
\* Greenwich (and a row that is too short), eastern zones only (one
\* offset written with a decimal point), or no file.
CsvFiles ==
  { [exists |-> TRUE,
     rows |->
       << <<"Africa/Abidjan", "CI", "GMT", <<"9", "4", "6", "6", "8", "4", "8", "0", "0">>, <<"0">>, <<"0">>>>,
       <<"America/New_York", "US", "EST", <<"9", "4", "6", "6", "8", "4", "8", "0", "0">>, <<"-", "1", "8", "0", "0", "0">>, <<"0">>>>,
       <<"America/New_York", "US", "EDT", <<"9", "4", "6", "6", "8", "4", "8", "0", "0">>, <<"-", "1", "4", "4", "0", "0">>, <<"1">>>>,
       <<"America/Sao_Paulo", "BR", "-03", <<"9", "4", "6", "6", "8", "4", "8", "0", "0">>, <<"-", "1", "0", "8", "0", "0">>, <<"0">>>>,
       <<"Europe/Paris", "FR", "CET", <<"9", "4", "6", "6", "8", "4", "8", "0", "0">>, <<"3", "6", "0", "0">>, <<"0">>>>,
       <<"Europe/Paris", "FR", "CEST", <<"9", "4", "6", "6", "8", "4", "8", "0", "0">>, <<"7", "2", "0", "0">>, <<"1">>>>,
       <<"Asia/Kolkata", "IN", "IST", <<"9", "4", "6", "6", "8", "4", "8", "0", "0">>, <<"1", "9", "8", "0", "0">>, <<"0">>>>,
       <<"Etc/UTC", "ZZ", "UTC">> >>],
    [exists |-> TRUE,
     rows |->
       << <<"Europe/Paris", "FR", "CEST", <<"9", "4", "6", "6", "8", "4", "8", "0", "0">>, <<"7", "2", "0", "0", ".", "0">>, <<"1">>>>,
       <<"Europe/Paris", "FR", "CET", <<"9", "4", "6", "6", "8", "4", "8", "0", "0">>, <<"3", "6", "0", "0">>, <<"0">>>>,
       <<"Africa/Abidjan", "CI", "GMT", <<"9", "4", "6", "6", "8", "4", "8", "0", "0">>, <<"0">>, <<"0">>>>,
       <<"Australia/Sydney", "AU", "AEDT", <<"9", "4", "6", "6", "8", "4", "8", "0", "0">>, <<"3", "9", "6", "0", "0">>, <<"1">>>>,
       <<"Asia/Kolkata", "IN", "IST", <<"9", "4", "6", "6", "8", "4", "8", "0", "0">>, <<"1", "9", "8", "0", "0">>, <<"0">>>> >>],
    [exists |-> FALSE, rows |-> << >>] }

\* Places in countries the code has no fixed zone for.
CsvCoordenadas ==
  { [lat |-> la, lon |-> lo, pais |-> c] :
      la \in ZoneLats, lo \in ZoneLons,
      c \in {"France", "Brazil", "United States", ""} }

InitCsv ==
  /\ pc = "preload"
  /\ args \in { [fn |-> "obtener_zona_horaria", coordenadas |-> c,
                 fecha |-> f] :
                  c \in CsvCoordenadas,
                  f \in { [year |-> 2000, month |-> 1, day |-> 15],
                          [year |-> 2000, month |-> 7, day |-> 15] } }
  /\ env \in { [kind |-> "table", file |-> f, time_zone_df |-> << >>] :
                 f \in CsvFiles }
  /\ ret = NoRet

\* preload_resources, as far as time_zone_df goes.
Preload_resources ==
  /\ pc = "preload"
  /\ env' = [env EXCEPT !.time_zone_df = load_time_zone_df(env.file)]
  /\ pc' = "call"
  /\ UNCHANGED <<args, ret>>

NextCsv == Preload_resources \/ Call_obtener_zona_horaria

SpecCsv == InitCsv /\ [][NextCsv]_vars

\* The rows of the file with six columns, their offsets read with their
\* sign.
SignedRows(file) ==
  LET wide(row) == Len(row) >= 6
      rows == SelectSeq(file.rows, wide)
  IN  [i \in 1..Len(rows) |-> load_row_signed(rows[i])]

\* The first row whose offset is nearest to est (both in minutes).
FirstNearest(rows, est) ==
  CHOOSE i \in 1..Len(rows) :
    /\ \A j \in 1..Len(rows) :
         Abs(rows[i].utc_offset \div 60 - est)
           <= Abs(rows[j].utc_offset \div 60 - est)
    /\ \A j \in 1..(i - 1) :
         Abs(rows[j].utc_offset \div 60 - est)
           > Abs(rows[i].utc_offset \div 60 - est)

\* The offset (in minutes) the claim expects of the lookup in the file:
\* that of the nearest row, plus the DST hour of a DST row on a DST date.
NearestSignedOffset(file, lon, is_dst) ==
  LET rows == SignedRows(file)
      best == rows[FirstNearest(rows, Hours(estimate_hours(lon)))]
  IN  best.utc_offset \div 60 + (IF is_dst /\ best.dst = 1 THEN Hours(1) ELSE 0)

\* The lookup in a loaded table is over.
TableLookedUp ==
  /\ ZoneReturned
  /\ ret.path = "primary"
  /\ "file" \in DOMAIN env
  /\ Len(env.time_zone_df) > 0

\* C28: for a country without a fixed zone and a loaded table, the offset
\* resolved is that of the first row of the file nearest to round(lon/15)
\* hours, the rows taken with their signed offsets; when a row has exactly
\* round(lon/15) hours, that offset (or one hour more under DST) is the
\* one resolved, west of Greenwich as well as east.
C28_NearestSignedRow ==
  TableLookedUp =>
    LET lon == args.coordenadas.lon
        est == Hours(estimate_hours(lon))
        rows == SignedRows(env.file)
    IN  /\ ret.value.offset
             = NearestSignedOffset(env.file, lon, ret.value.is_dst)
        /\ (\E i \in 1..Len(rows) : rows[i].utc_offset \div 60 = est) =>
             ret.value.offset \in {est, est + Hours(1)}

\* What holds of the code: the claim, for a file that has no offset west
\* of Greenwich.
C28_NearestRowEastOnly ==
  TableLookedUp =>
    LET lon == args.coordenadas.lon
        rows == SignedRows(env.file)
    IN  (\A i \in 1..Len(rows) : rows[i].utc_offset >= 0) =>
          ret.value.offset
            = NearestSignedOffset(env.file, lon, ret.value.is_dst)

\* ------------------------------------ claims on the DST hour of the offset
\* The offsets obtener_zona_horaria returns for the same coordinates and
\* table on the dates for which it returns is_dst false.
StandardOffsets ==
  { r.value.offset :
      r \in { z \in { obtener_zona_horaria(args.coordenadas, f,
                                           env.time_zone_df) :
                        f \in ZoneFechas } :
                z.path = "primary" /\ ~z.value.is_dst } }

\* The call returned is_dst = true.
DstReturnedByZone == ZoneReturned /\ ret.path = "primary" /\ ret.value.is_dst

\* C29: whenever obtener_zona_horaria returns is_dst = true, the offset is
\* one hour more than the offset returned for the same coordinates and
\* country on a date with is_dst false, on every path.
C29_OffsetEncodesDst ==
  DstReturnedByZone =>
    \A o \in StandardOffsets : ret.value.offset = o + Hours(1)

\* The offset of the place has a DST hour: Spain, Mexico, or a country
\* without a fixed zone whose nearest row of the table has the flag 1.
HasDstHour(coordenadas, tzdf) ==
  LET pais == pais_of(coordenadas)
  IN  \/ is_spain(pais)
      \/ ~IsArgentina(pais) /\ IsMexico(pais)
      \/ /\ ~is_spain(pais) /\ ~IsArgentina(pais) /\ ~IsMexico(pais)
         /\ Len(tzdf) > 0
         /\ tzdf[closest_zone(tzdf, estimate_hours(coordenadas.lon))].dst = 1

\* What the code does: with is_dst = true the offset is one hour more
\* than on a date with is_dst false for Spain, for Mexico and for a table
\* row flagged DST; for Argentina, a row not flagged and the estimate with
\* an empty table it is the same offset as on that date.
C29_OffsetEncodesDstWhereFlagged ==
  DstReturnedByZone =>
    \A o \in StandardOffsets :
      ret.value.offset
        = o + (IF HasDstHour(args.coordenadas, env.time_zone_df)
               THEN Hours(1) ELSE 0)

====
